---- MODULE Spec2Model ----
(***************************************************************************)
(* Model of go-bcr: the Bazel Central Registry client (remote backend      *)
(* with its resource cache), the local-tree backend and the version        *)
(* resolver over Metadata.                                                 *)
(*                                                                         *)
(* Strings that the code inspects character by character (version         *)
(* strings) are sequences of one-character strings; byte payloads whose    *)
(* content the code only stores, forwards or hands to the JSON decoder are *)
(* tokens.                                                                 *)
(***************************************************************************)
EXTENDS Integers, Sequences, FiniteSets, TLC

VARIABLES
    meta,       \* the Metadata value the resolver queries are applied to
    query,      \* the last resolver query and its result
    client,     \* the backend instance: a Client or a FileRegistry
    store,      \* the backing store: what the endpoint serves / the local tree
    cache,      \* the files under the cache directory: key -> bytes, mod time
    now,        \* the clock
    last,       \* the last backend call: its arguments, I/O and result
    run         \* the cache's lock and the goroutines inside cache.get/set

vars == <<meta, query, client, store, cache, now, last, run>>

(***************************************************************************)
(* Bounds                                                                  *)
(***************************************************************************)
MaxVersions == 3
MaxTime == 2
MaxStop == 2
MaxDepth == 2
MaxLen == 3

(***************************************************************************)
(* Version resolver (types.go)                                             *)
(***************************************************************************)
EmptyStr == << >>

\* the version strings the resolver is exercised on: the empty string, a
\* stable version, two prereleases and a near miss ("1-r", stable)
VersionStrings ==
    { EmptyStr,
      <<"1">>,
      <<"1", "-", "r", "c">>,
      <<"2", "-", "p", "r", "e">>,
      <<"1", "-", "r">> }

YankReasons == { "broken" }

\* map[string]string: the nil map, or a map over some keys
NilMap == [isNil |-> TRUE, kv |-> << >>]

YankMaps ==
    { NilMap } \cup
    UNION { { [isNil |-> FALSE, kv |-> f] : f \in [S -> YankReasons] } :
            S \in SUBSET VersionStrings }

\* *Metadata: the nil pointer, or a struct
NilMeta == [isNil |-> TRUE]

SeqsUpTo(S, n) == UNION { [1..k -> S] : k \in 0..n }

Metadatas ==
    { NilMeta } \cup
    { [isNil |-> FALSE, Versions |-> vs, YankedVersions |-> ym] :
        vs \in SeqsUpTo(VersionStrings, MaxVersions), ym \in YankMaps }

EmptyMeta == [isNil |-> FALSE, Versions |-> << >>, YankedVersions |-> NilMap]

\* mutant: the nil guard answers "yanked"
IsYankedNilTrue(m, version) ==
    IF m.isNil THEN TRUE
    ELSE IF m.YankedVersions.isNil THEN FALSE
    ELSE version \in DOMAIN m.YankedVersions.kv

IsYanked(m, version) ==
    IF m.isNil \/ m.YankedVersions.isNil
    THEN FALSE
    ELSE version \in DOMAIN m.YankedVersions.kv

YankReason(m, version) ==
    IF m.isNil \/ m.YankedVersions.isNil
    THEN ""
    ELSE IF version \in DOMAIN m.YankedVersions.kv
         THEN m.YankedVersions.kv[version]
         ELSE ""

\* mutant: the scan returns the newest entry without the yank test
LatestScanNoYank(m, i) ==
    IF i < 1 THEN EmptyStr ELSE m.Versions[i]

\* mutant: the scan gives up at the first yanked entry
LatestScanStopAtYanked(m, i) ==
    IF i < 1 THEN EmptyStr
    ELSE IF ~IsYanked(m, m.Versions[i]) THEN m.Versions[i]
    ELSE EmptyStr

\* the loop "for i := len-1; i >= 0; i--" of Latest, at 1-based index i
RECURSIVE LatestScan(_, _)
LatestScan(m, i) ==
    IF i < 1 THEN EmptyStr
    ELSE IF ~IsYanked(m, m.Versions[i]) THEN m.Versions[i]
    ELSE LatestScan(m, i - 1)

\* mutant: Latest returns the oldest entry (index 0) when it is not yanked
LatestOldest(m) ==
    IF m.isNil \/ Len(m.Versions) = 0
    THEN EmptyStr
    ELSE LatestScan(m, 1)

Latest(m) ==
    IF m.isNil \/ Len(m.Versions) = 0
    THEN EmptyStr
    ELSE LatestScan(m, Len(m.Versions))

\* strings.Contains
Contains(s, sub) ==
    \E i \in 1..(Len(s) - Len(sub) + 1) : SubSeq(s, i, i + Len(sub) - 1) = sub

prereleaseIndicators ==
    << <<"-", "r", "c">>,
       <<"-", "a", "l", "p", "h", "a">>,
       <<"-", "b", "e", "t", "a">>,
       <<"-", "d", "e", "v">>,
       <<"-", "p", "r", "e">> >>

IsPrerelease(version) ==
    \E k \in 1..Len(prereleaseIndicators) :
        Contains(version, prereleaseIndicators[k])

\* mutant: the first pass takes the newest stable entry without the yank test
RECURSIVE StableScanNoYank(_, _)
StableScanNoYank(m, i) ==
    IF i < 1 THEN [found |-> FALSE, v |-> EmptyStr]
    ELSE IF ~IsPrerelease(m.Versions[i])
         THEN [found |-> TRUE, v |-> m.Versions[i]]
    ELSE StableScanNoYank(m, i - 1)

\* mutant: the first pass looks at the newest entry only
StableScanStopAtPrerelease(m, i) ==
    IF i < 1 THEN [found |-> FALSE, v |-> EmptyStr]
    ELSE IF IsYanked(m, m.Versions[i])
         THEN [found |-> FALSE, v |-> EmptyStr]
    ELSE IF ~IsPrerelease(m.Versions[i])
         THEN [found |-> TRUE, v |-> m.Versions[i]]
    ELSE [found |-> FALSE, v |-> EmptyStr]

\* first pass of LatestStable; found = FALSE when the loop runs out
RECURSIVE StableScan(_, _)
StableScan(m, i) ==
    IF i < 1 THEN [found |-> FALSE, v |-> EmptyStr]
    ELSE IF IsYanked(m, m.Versions[i]) THEN StableScan(m, i - 1)
    ELSE IF ~IsPrerelease(m.Versions[i])
         THEN [found |-> TRUE, v |-> m.Versions[i]]
    ELSE StableScan(m, i - 1)

\* mutant: the first pass is skipped
LatestStableNoFirstPass(m) ==
    IF m.isNil \/ Len(m.Versions) = 0
    THEN EmptyStr
    ELSE LatestScan(m, Len(m.Versions))

\* mutant: there is no second pass
LatestStableNoFallback(m) ==
    IF m.isNil \/ Len(m.Versions) = 0
    THEN EmptyStr
    ELSE StableScan(m, Len(m.Versions)).v

LatestStable(m) ==
    IF m.isNil \/ Len(m.Versions) = 0
    THEN EmptyStr
    ELSE IF StableScan(m, Len(m.Versions)).found
         THEN StableScan(m, Len(m.Versions)).v
         ELSE LatestScan(m, Len(m.Versions))

HasVersion(m, version) ==
    IF m.isNil
    THEN FALSE
    ELSE \E i \in 1..Len(m.Versions) : m.Versions[i] = version


\* no query method has been called
NoQuery ==
    [fn |-> "none", arg |-> EmptyStr, str |-> EmptyStr, reason |-> "",
     bool |-> FALSE]

(***************************************************************************)
(* Errors (registry.go, errors part)                                       *)
(*                                                                         *)
(* An error value is a record; inner holds the errors it wraps: none for a *)
(* leaf, one for an error with Unwrap() error, and the joined errors for   *)
(* an error with Unwrap() []error (errors.Join, several %w verbs).         *)
(***************************************************************************)
ErrValue(kind, module, version, status, url, inner) ==
    [kind |-> kind, Module |-> module, Version |-> version,
     StatusCode |-> status, URL |-> url, inner |-> inner]

\* the nil error
NoErr == ErrValue("nil", "", "", 0, "", << >>)

\* errors.New(msg): a leaf error identified by its text
LeafErr(msg) == ErrValue(msg, "", "", 0, "", << >>)

ErrNotFound == LeafErr("bcr: not found")

ErrListingNotSupported == LeafErr("bcr: listing not supported")

\* &NotFoundError{Module, Version, StatusCode}; Unwrap returns nil
NotFoundError(module, version, status) ==
    ErrValue("NotFoundError", module, version, status, "", << >>)

\* &RequestError{URL, StatusCode, Err}; Unwrap returns Err
RequestError(url, status, err) ==
    ErrValue("RequestError", "", "", status, url,
             IF err = NoErr THEN << >> ELSE <<err>>)

\* fmt.Errorf(msg + ": %w", err)
Errorf(msg, err) == ErrValue(msg, "", "", 0, "", <<err>>)

\* errors.Join(errs...): its method is Unwrap() []error
JoinError(errs) == ErrValue("errors.Join", "", "", 0, "", errs)

\* the type assertion err.(interface{ Unwrap() error }) succeeds
HasUnwrap(err) == err.kind # "errors.Join" /\ Len(err.inner) = 1

\* isNotFound(err): a leaf and a joined error have no Unwrap() error method
\* and are not unwrapped
RECURSIVE isNotFound(_)
isNotFound(err) ==
    IF err = NoErr THEN FALSE
    ELSE IF err = ErrNotFound THEN TRUE
    ELSE IF err.kind = "NotFoundError" THEN TRUE
    ELSE IF HasUnwrap(err) THEN isNotFound(err.inner[1])
    ELSE FALSE

(***************************************************************************)
(* Payloads and decoding                                                   *)
(***************************************************************************)
\* module and version names used in calls
Modules == { "testmod" }

ReqVersions == { "1.0.0" }

\* path.Join("modules", ...): the relative path
MetadataPath(module) == "modules/" \o module \o "/metadata.json"

SourcePath(module, version) ==
    "modules/" \o module \o "/" \o version \o "/source.json"

ModuleFilePath(module, version) ==
    "modules/" \o module \o "/" \o version \o "/MODULE.bazel"

IndexPath == "modules/index.json"

CacheKeys ==
    { MetadataPath(m) : m \in Modules } \cup
    { SourcePath(m, v) : m \in Modules, v \in ReqVersions } \cup
    { ModuleFilePath(m, v) : m \in Modules, v \in ReqVersions }

Paths == CacheKeys \cup { IndexPath }

\* a path with no file behind it
Absent == "<absent>"

\* what a file is left holding when os.WriteFile fails after truncating it
Truncated == ""

\* json.Unmarshal into Metadata: the documents that decode, and their values
\* (M3: every version yanked; M4: no versions; M5: the newest version is the
\* empty string)
MetadataDocs ==
    [ M1 |-> [isNil |-> FALSE,
              Versions |-> << <<"1">> >>,
              YankedVersions |-> NilMap],
      M2 |-> [isNil |-> FALSE,
              Versions |-> << <<"1">>, <<"1", "-", "r", "c">> >>,
              YankedVersions |->
                  [isNil |-> FALSE, kv |-> ( <<"1">> :> "broken" )]],
      M3 |-> [isNil |-> FALSE,
              Versions |-> << <<"1">>, <<"1", "-", "r", "c">> >>,
              YankedVersions |->
                  [isNil |-> FALSE,
                   kv |-> ( <<"1">> :> "broken" @@
                            <<"1", "-", "r", "c">> :> "broken" )]],
      M4 |-> [isNil |-> FALSE,
              Versions |-> << >>,
              YankedVersions |-> NilMap],
      M5 |-> [isNil |-> FALSE,
              Versions |-> << <<"1">>, EmptyStr >>,
              YankedVersions |-> NilMap] ]

UnmarshalMetadata(data) ==
    IF data \in DOMAIN MetadataDocs
    THEN [ok |-> TRUE, val |-> MetadataDocs[data]]
    ELSE [ok |-> FALSE, val |-> NilMeta]

NilSource == [isNil |-> TRUE]

\* json.Unmarshal into Source
SourceDocs ==
    [ S1 |-> [isNil |-> FALSE, Type |-> "",
              URL |-> "https://example.com/archive.zip",
              Integrity |-> "sha256-abc123"] ]

UnmarshalSource(data) ==
    IF data \in DOMAIN SourceDocs
    THEN [ok |-> TRUE, val |-> SourceDocs[data]]
    ELSE [ok |-> FALSE, val |-> NilSource]

\* json.Unmarshal into []string (the module index)
IndexDocs == [ I0 |-> << >>, I1 |-> <<"testmod">> ]

UnmarshalIndex(data) ==
    IF data \in DOMAIN IndexDocs
    THEN [ok |-> TRUE, val |-> IndexDocs[data]]
    ELSE [ok |-> FALSE, val |-> << >>]

\* the error json.Unmarshal returns
JSONError == LeafErr("json: syntax error")

(***************************************************************************)
(* The backing store                                                       *)
(*                                                                         *)
(* One shape serves both backends: files maps each relative path to its    *)
(* content (or Absent); for the local tree, modulesDir says whether the    *)
(* modules/ directory exists, dirs are its subdirectories and others its   *)
(* entries that are not directories.                                       *)
(***************************************************************************)
Tree(md, sd, fd, ix, hasDir, dirs, others) ==
    [files |-> [p \in Paths |->
                  IF p = MetadataPath("testmod") THEN md
                  ELSE IF p = SourcePath("testmod", "1.0.0") THEN sd
                  ELSE IF p = ModuleFilePath("testmod", "1.0.0") THEN fd
                  ELSE IF p = IndexPath THEN ix
                  ELSE Absent],
     modulesDir |-> hasDir, dirs |-> dirs, others |-> others]

\* registry contents the runs range over: nothing published; a complete
\* module with an index; the same after a metadata update, with an index that
\* lists nothing; malformed documents
Stores ==
    { Tree(Absent, Absent, Absent, Absent, FALSE, {}, {}),
      Tree(Absent, Absent, Absent, Absent, TRUE, {}, {}),
      Tree("M1", "S1", Absent, "I1", TRUE, {"testmod", "nometa"},
           {"index.json"}),
      Tree("M2", Absent, "F1", "I0", TRUE, {"testmod"}, {"index.json"}),
      Tree("Mbad", "Sbad", "F1", "Ibad", TRUE, {"testmod"}, {"index.json"}) }

\* the tree after every module has been withdrawn
Withdrawn == Tree(Absent, Absent, Absent, Absent, TRUE, {}, {})

(***************************************************************************)
(* Construction (New, newCache, NewFileRegistry)                           *)
(***************************************************************************)
DefaultBaseURL == "https://bcr.bazel.build"

\* a base URL that url.JoinPath cannot parse
BadBaseURL == "%zz"

\* time.Hour, in clock ticks (one tick is an hour)
Hour == 1

newCache(dir, ttl) ==
    [isNil |-> FALSE, dir |-> dir, ttl |-> IF ttl = 0 THEN Hour ELSE ttl]

NilCache == [isNil |-> TRUE, dir |-> "", ttl |-> 0]

\* New(WithBaseURL(baseURL), WithCacheDir(cacheDir), WithCacheTTL(cacheTTL))
New(baseURL, cacheDir, cacheTTL) ==
    [kind |-> "remote", baseURL |-> baseURL, root |-> "",
     cache |-> IF cacheDir # "" THEN newCache(cacheDir, cacheTTL) ELSE NilCache]

NewFileRegistry(root) ==
    [kind |-> "file", baseURL |-> "", root |-> root, cache |-> NilCache]

\* the option sets the runs range over: defaults (no cache); a cache with the
\* default and with an explicit time-to-live; a cache behind a bad base URL
Clients ==
    { New(DefaultBaseURL, "", 0),
      New(DefaultBaseURL, "/cache", 0),
      New(DefaultBaseURL, "/cache", 2),
      New(BadBaseURL, "/cache", 0) }

(***************************************************************************)
(* Resource cache (cache.get, cache.set)                                   *)
(***************************************************************************)
NoEntry == [present |-> FALSE, data |-> "", mtime |-> 0]

Entry(data, mtime) == [present |-> TRUE, data |-> data, mtime |-> mtime]

\* faults of the file system under the cache directory, per call
GetFaults == { "none", "stat", "read" }

SetFaults == { "none", "mkdir", "write" }

\* mutant: the freshness test is applied whatever checkTTL says
cacheGetAlwaysTTL(c, key, checkTTL, fault) ==
    IF fault = "stat" \/ ~cache[key].present
    THEN [data |-> "", ok |-> FALSE]
    ELSE IF now - cache[key].mtime > c.ttl
    THEN [data |-> "", ok |-> FALSE]
    ELSE IF fault = "read"
    THEN [data |-> "", ok |-> FALSE]
    ELSE [data |-> cache[key].data, ok |-> TRUE]

\* mutant: an entry is stale as soon as its age reaches the time-to-live
cacheGetStaleAtTTL(c, key, checkTTL, fault) ==
    IF fault = "stat" \/ ~cache[key].present
    THEN [data |-> "", ok |-> FALSE]
    ELSE IF checkTTL /\ now - cache[key].mtime >= c.ttl
    THEN [data |-> "", ok |-> FALSE]
    ELSE IF fault = "read"
    THEN [data |-> "", ok |-> FALSE]
    ELSE [data |-> cache[key].data, ok |-> TRUE]

\* mutant: the freshness test is never applied
cacheGetNeverTTL(c, key, checkTTL, fault) ==
    IF fault = "stat" \/ ~cache[key].present
    THEN [data |-> "", ok |-> FALSE]
    ELSE IF fault = "read"
    THEN [data |-> "", ok |-> FALSE]
    ELSE [data |-> cache[key].data, ok |-> TRUE]

\* c.get(key, checkTTL): os.Stat fails (no file, or fault "stat"), the entry
\* is older than ttl, or os.ReadFile fails (fault "read"): (nil, false)
cacheGet(c, key, checkTTL, fault) ==
    IF fault = "stat" \/ ~cache[key].present
    THEN [data |-> "", ok |-> FALSE]
    ELSE IF checkTTL /\ now - cache[key].mtime > c.ttl
    THEN [data |-> "", ok |-> FALSE]
    ELSE IF fault = "read"
    THEN [data |-> "", ok |-> FALSE]
    ELSE [data |-> cache[key].data, ok |-> TRUE]

\* mutant: a failed write removes the file
cacheSetRemoveOnFault(c, key, data, fault) ==
    IF fault = "mkdir" THEN cache
    ELSE IF fault = "write"
    THEN [cache EXCEPT ![key] = NoEntry]
    ELSE [cache EXCEPT ![key] = Entry(data, now)]

\* c.set(key, data): the files after the call. os.MkdirAll fails (fault
\* "mkdir"): nothing changes; os.WriteFile fails after opening the file
\* (fault "write"): the file is left truncated
\* mutant: a file that is there is rewritten without a new modification
\* time
cacheSetKeepModTime(c, key, data, fault) ==
    IF fault = "mkdir" THEN cache
    ELSE IF fault = "write"
    THEN [cache EXCEPT ![key] = Entry(Truncated, now)]
    ELSE [cache EXCEPT ![key] =
             Entry(data, IF cache[key].present THEN cache[key].mtime
                         ELSE now)]

cacheSet(c, key, data, fault) ==
    IF fault = "mkdir" THEN cache
    ELSE IF fault = "write"
    THEN [cache EXCEPT ![key] = Entry(Truncated, now)]
    ELSE [cache EXCEPT ![key] = Entry(data, now)]

\* the goroutines that share one Client, and so one cache
Goroutines == { "g1", "g2", "g3" }

\* a goroutine outside cache.get and cache.set
Idle ==
    [pc |-> "idle", key |-> "", checkTTL |-> FALSE, data |-> "",
     ok |-> FALSE, torn |-> FALSE]

\* sync.RWMutex with no holder: w is the goroutine that holds the writer
\* side (from rw.w.Lock() on), readers are the goroutines holding a read lock
Unlocked == [w |-> "none", readers |-> {}]

\* no goroutine is inside the cache
NoRun == [mu |-> Unlocked, g |-> [t \in Goroutines |-> Idle]]

(***************************************************************************)
(* fetch                                                                   *)
(***************************************************************************)
StatusOK == 200

StatusNoContent == 204

StatusNotFound == 404

StatusInternalServerError == 500

\* how the endpoint behaves for one request: "up" serves the store; "down"
\* is a transport failure; "error" and "nocontent" answer 500 and 204;
\* "badbody" serves the store but the body cannot be read to the end
ServerModes == { "up", "down", "error", "nocontent", "badbody" }

\* url.JoinPath(baseURL, urlPath)
JoinPathOK(baseURL) == baseURL # BadBaseURL

JoinPath(baseURL, urlPath) == baseURL \o "/" \o urlPath

\* c.http.Do(req): a cancelled context fails the round trip before any
\* network I/O; otherwise the endpoint answers according to its mode
Do(cancelled, urlPath, mode) ==
    IF cancelled
    THEN [err |-> LeafErr("context canceled"), StatusCode |-> 0,
          body |-> "", readOK |-> TRUE, net |-> FALSE]
    ELSE IF mode = "down"
    THEN [err |-> LeafErr("dial tcp: connection refused"), StatusCode |-> 0,
          body |-> "", readOK |-> TRUE, net |-> TRUE]
    ELSE IF mode = "error"
    THEN [err |-> NoErr, StatusCode |-> StatusInternalServerError,
          body |-> "", readOK |-> TRUE, net |-> TRUE]
    ELSE IF mode = "nocontent"
    THEN [err |-> NoErr, StatusCode |-> StatusNoContent,
          body |-> "", readOK |-> TRUE, net |-> TRUE]
    ELSE IF store.files[urlPath] = Absent
    THEN [err |-> NoErr, StatusCode |-> StatusNotFound,
          body |-> "404 page not found", readOK |-> TRUE, net |-> TRUE]
    ELSE [err |-> NoErr, StatusCode |-> StatusOK,
          body |-> store.files[urlPath], readOK |-> mode # "badbody",
          net |-> TRUE]

\* no response: c.http.Do was not called
NoResp ==
    [err |-> NoErr, StatusCode |-> 0, body |-> "", readOK |-> TRUE,
     net |-> FALSE]

FetchResult(data, err, calls, resp) ==
    [data |-> data, err |-> err, httpDo |-> calls, resp |-> resp]

\* c.fetch was not called
NoFetch == FetchResult("", NoErr, 0, NoResp)

\* mutant: a 404 is reported like any other non-success status
fetchResponseNo404(u, module, version, resp) ==
    IF resp.err # NoErr
    THEN FetchResult("", RequestError(u, 0, resp.err), 1, resp)
    ELSE IF resp.StatusCode # StatusOK
    THEN FetchResult("", RequestError(u, resp.StatusCode, NoErr), 1, resp)
    ELSE IF ~resp.readOK
    THEN FetchResult("",
             RequestError(u, 0, Errorf("failed to read response",
                                       LeafErr("unexpected EOF"))),
             1, resp)
    ELSE FetchResult(resp.body, NoErr, 1, resp)

\* fetch, from the return of c.http.Do on: the outcome for the response
fetchResponse(u, module, version, resp) ==
    IF resp.err # NoErr
    THEN FetchResult("", RequestError(u, 0, resp.err), 1, resp)
    ELSE IF resp.StatusCode = StatusNotFound
    THEN FetchResult("", NotFoundError(module, version, resp.StatusCode),
                     1, resp)
    ELSE IF resp.StatusCode # StatusOK
    THEN FetchResult("", RequestError(u, resp.StatusCode, NoErr), 1, resp)
    ELSE IF ~resp.readOK
    THEN FetchResult("",
             RequestError(u, 0, Errorf("failed to read response",
                                       LeafErr("unexpected EOF"))),
             1, resp)
    ELSE FetchResult(resp.body, NoErr, 1, resp)

\* c.fetch(ctx, urlPath, module, version); httpDo counts the calls of
\* c.http.Do and resp is what the call returned
fetch(c, cancelled, urlPath, module, version, mode) ==
    IF ~JoinPathOK(c.baseURL)
    THEN FetchResult("", Errorf("bcr: invalid URL", LeafErr("url: parse")),
                     0, NoResp)
    ELSE fetchResponse(JoinPath(c.baseURL, urlPath), module, version,
                       Do(cancelled, urlPath, mode))

(***************************************************************************)
(* Backend operations                                                      *)
(*                                                                         *)
(* Each operation is an operator from the instance, the arguments and the  *)
(* environment's choices for this call to a return record: the values and  *)
(* error returned, the cache files afterwards, and what I/O was done       *)
(* (gets, sets: calls of cache.get and cache.set; httpDo: calls of         *)
(* c.http.Do; resp: what it returned; fetched, ferr: what c.fetch          *)
(* returned; disk: the local tree was read).                               *)
(* An operation of the client is split where the code goes from the cache  *)
(* check to the fetch.                                                     *)
(***************************************************************************)
Ret(metaV, srcV, bytesV, namesV, err, files, gets, sets, f, disk) ==
    [meta |-> metaV, src |-> srcV, bytes |-> bytesV, names |-> namesV,
     err |-> err, cache |-> files, gets |-> gets, sets |-> sets,
     httpDo |-> f.httpDo, resp |-> f.resp, fetched |-> f.data,
     ferr |-> f.err, disk |-> disk]

\* a return with an error and the zero values
Fail(err, files, gets, f, disk) ==
    Ret(NilMeta, NilSource, "", << >>, err, files, gets, 0, f, disk)

\* "if c.cache != nil { c.cache.get(urlPath, checkTTL) }"
Miss == [data |-> "", ok |-> FALSE, gets |-> 0]

CheckCache(c, urlPath, checkTTL, gf) ==
    IF c.cache.isNil THEN Miss
    ELSE [data |-> cacheGet(c.cache, urlPath, checkTTL, gf).data,
          ok |-> cacheGet(c.cache, urlPath, checkTTL, gf).ok,
          gets |-> 1]

\* "if c.cache != nil { c.cache.set(urlPath, data) }": the files afterwards
StoreCache(c, urlPath, data, sf) ==
    IF c.cache.isNil THEN cache ELSE cacheSet(c.cache, urlPath, data, sf)

Sets(c) == IF c.cache.isNil THEN 0 ELSE 1

\* mutant: the fetched bytes are cached before they are parsed
MetadataFetchedStoreFirst(c, urlPath, sf, g, f) ==
    IF f.err # NoErr
    THEN Fail(f.err, cache, g.gets, f, FALSE)
    ELSE IF ~UnmarshalMetadata(f.data).ok
    THEN Fail(Errorf("bcr: failed to parse metadata", JSONError),
              StoreCache(c, urlPath, f.data, sf), g.gets, f, FALSE)
    ELSE Ret(UnmarshalMetadata(f.data).val, NilSource, "", << >>, NoErr,
             StoreCache(c, urlPath, f.data, sf),
             g.gets, Sets(c), f, FALSE)

\* mutant: when the fetch fails, an entry that is there is served, however
\* old it is
MetadataFetchedStaleOnError(c, urlPath, sf, g, f) ==
    IF f.err # NoErr /\ UnmarshalMetadata(cache[urlPath].data).ok
    THEN Ret(UnmarshalMetadata(cache[urlPath].data).val, NilSource, "",
             << >>, NoErr, cache, g.gets, 0, f, FALSE)
    ELSE IF f.err # NoErr
    THEN Fail(f.err, cache, g.gets, f, FALSE)
    ELSE IF ~UnmarshalMetadata(f.data).ok
    THEN Fail(Errorf("bcr: failed to parse metadata", JSONError),
              cache, g.gets, f, FALSE)
    ELSE Ret(UnmarshalMetadata(f.data).val, NilSource, "", << >>, NoErr,
             StoreCache(c, urlPath, f.data, sf),
             g.gets, Sets(c), f, FALSE)

\* Metadata, after the fetch: parse, cache, return
MetadataFetched(c, urlPath, sf, g, f) ==
    IF f.err # NoErr
    THEN Fail(f.err, cache, g.gets, f, FALSE)
    ELSE IF ~UnmarshalMetadata(f.data).ok
    THEN Fail(Errorf("bcr: failed to parse metadata", JSONError),
              cache, g.gets, f, FALSE)
    ELSE Ret(UnmarshalMetadata(f.data).val, NilSource, "", << >>, NoErr,
             StoreCache(c, urlPath, f.data, sf),
             g.gets, Sets(c), f, FALSE)

\* Metadata, after the cache check
MetadataChecked(c, module, cancelled, mode, sf, urlPath, g) ==
    IF g.ok /\ UnmarshalMetadata(g.data).ok
    THEN Ret(UnmarshalMetadata(g.data).val, NilSource, "", << >>, NoErr,
             cache, g.gets, 0, NoFetch, FALSE)
    ELSE MetadataFetched(c, urlPath, sf, g,
                         fetch(c, cancelled, urlPath, module, "", mode))

\* (c *Client) Metadata(ctx, module)
ClientMetadataCall(c, module, cancelled, mode, gf, sf) ==
    MetadataChecked(c, module, cancelled, mode, sf, MetadataPath(module),
                    CheckCache(c, MetadataPath(module), TRUE, gf))

\* mutant: a failure of cache.set is returned to the caller
SourceFetchedSurfaceWrite(c, urlPath, sf, g, f) ==
    IF f.err # NoErr
    THEN Fail(f.err, cache, g.gets, f, FALSE)
    ELSE IF ~UnmarshalSource(f.data).ok
    THEN Fail(Errorf("bcr: failed to parse source", JSONError),
              cache, g.gets, f, FALSE)
    ELSE IF sf # "none"
    THEN Ret(NilMeta, NilSource, "", << >>,
             Errorf("bcr: failed to write cache", LeafErr("no space left")),
             StoreCache(c, urlPath, f.data, sf),
             g.gets, Sets(c), f, FALSE)
    ELSE Ret(NilMeta, UnmarshalSource(f.data).val, "", << >>, NoErr,
             StoreCache(c, urlPath, f.data, sf),
             g.gets, Sets(c), f, FALSE)

\* Source, after the fetch
SourceFetched(c, urlPath, sf, g, f) ==
    IF f.err # NoErr
    THEN Fail(f.err, cache, g.gets, f, FALSE)
    ELSE IF ~UnmarshalSource(f.data).ok
    THEN Fail(Errorf("bcr: failed to parse source", JSONError),
              cache, g.gets, f, FALSE)
    ELSE Ret(NilMeta, UnmarshalSource(f.data).val, "", << >>, NoErr,
             StoreCache(c, urlPath, f.data, sf),
             g.gets, Sets(c), f, FALSE)

\* mutant: a cached entry that does not parse fails the call
SourceCheckedStrict(c, module, version, cancelled, mode, sf, urlPath, g) ==
    IF g.ok /\ UnmarshalSource(g.data).ok
    THEN Ret(NilMeta, UnmarshalSource(g.data).val, "", << >>, NoErr,
             cache, g.gets, 0, NoFetch, FALSE)
    ELSE IF g.ok
    THEN Fail(Errorf("bcr: failed to parse source", JSONError),
              cache, g.gets, NoFetch, FALSE)
    ELSE SourceFetched(c, urlPath, sf, g,
                       fetch(c, cancelled, urlPath, module, version, mode))

\* Source, after the cache check
SourceChecked(c, module, version, cancelled, mode, sf, urlPath, g) ==
    IF g.ok /\ UnmarshalSource(g.data).ok
    THEN Ret(NilMeta, UnmarshalSource(g.data).val, "", << >>, NoErr,
             cache, g.gets, 0, NoFetch, FALSE)
    ELSE SourceFetched(c, urlPath, sf, g,
                       fetch(c, cancelled, urlPath, module, version, mode))

\* (c *Client) Source(ctx, module, version)
ClientSourceCall(c, module, version, cancelled, mode, gf, sf) ==
    SourceChecked(c, module, version, cancelled, mode, sf,
                  SourcePath(module, version),
                  CheckCache(c, SourcePath(module, version), FALSE, gf))

\* ModuleFile, after the fetch
ModuleFileFetched(c, urlPath, sf, g, f) ==
    IF f.err # NoErr
    THEN Fail(f.err, cache, g.gets, f, FALSE)
    ELSE Ret(NilMeta, NilSource, f.data, << >>, NoErr,
             StoreCache(c, urlPath, f.data, sf),
             g.gets, Sets(c), f, FALSE)

\* ModuleFile, after the cache check
ModuleFileChecked(c, module, version, cancelled, mode, sf, urlPath, g) ==
    IF g.ok
    THEN Ret(NilMeta, NilSource, g.data, << >>, NoErr,
             cache, g.gets, 0, NoFetch, FALSE)
    ELSE ModuleFileFetched(c, urlPath, sf, g,
                           fetch(c, cancelled, urlPath, module, version, mode))

\* (c *Client) ModuleFile(ctx, module, version)
ClientModuleFileCall(c, module, version, cancelled, mode, gf, sf) ==
    ModuleFileChecked(c, module, version, cancelled, mode, sf,
                      ModuleFilePath(module, version),
                      CheckCache(c, ModuleFilePath(module, version), FALSE, gf))

\* ListModules, after the fetch
ListModulesFetched(f) ==
    IF f.err # NoErr
    THEN Fail(IF isNotFound(f.err) THEN ErrListingNotSupported ELSE f.err,
              cache, 0, f, FALSE)
    ELSE IF ~UnmarshalIndex(f.data).ok
    THEN Fail(Errorf("bcr: failed to parse module index", JSONError),
              cache, 0, f, FALSE)
    ELSE Ret(NilMeta, NilSource, "", UnmarshalIndex(f.data).val, NoErr, cache,
             0, 0, f, FALSE)

\* (c *Client) ListModules(ctx)
ClientListModulesCall(c, cancelled, mode) ==
    ListModulesFetched(fetch(c, cancelled, IndexPath, "", "", mode))

(***************************************************************************)
(* Local-tree backend (file.go)                                            *)
(***************************************************************************)
\* ctx.Err() of a cancelled context
ContextCanceled == LeafErr("context canceled")

\* the error of an os call that fails for another reason than "no such file"
OSFault == LeafErr("permission denied")

\* os.ReadFile(filepath.Join(r.root, path)): fault is an I/O fault of this
\* call; a missing file gives an error that os.IsNotExist accepts
ReadFile(path, fault) ==
    IF fault THEN [data |-> "", err |-> OSFault, notExist |-> FALSE]
    ELSE IF path \notin DOMAIN store.files \/ store.files[path] = Absent
    THEN [data |-> "", err |-> LeafErr("no such file or directory"),
          notExist |-> TRUE]
    ELSE [data |-> store.files[path], err |-> NoErr, notExist |-> FALSE]

\* mutant: every read error is reported as not found
ReadErrorAllNotFound(rd, module, version, what) ==
    NotFoundError(module, version, 0)

\* "if os.IsNotExist(err) { NotFoundError } else { wrapped I/O error }"
ReadError(rd, module, version, what) ==
    IF rd.notExist THEN NotFoundError(module, version, 0)
    ELSE Errorf("bcr: failed to read " \o what, rd.err)

\* Metadata, after os.ReadFile
FileMetadataRead(module, rd) ==
    IF rd.err # NoErr
    THEN Fail(ReadError(rd, module, "", "metadata"),
              cache, 0, NoFetch, TRUE)
    ELSE IF ~UnmarshalMetadata(rd.data).ok
    THEN Fail(Errorf("bcr: failed to parse metadata", JSONError),
              cache, 0, NoFetch, TRUE)
    ELSE Ret(UnmarshalMetadata(rd.data).val, NilSource, "", << >>, NoErr,
             cache, 0, 0, NoFetch, TRUE)

\* (r *FileRegistry) Metadata(ctx, module)
FileMetadataCall(r, module, cancelled, fault) ==
    IF cancelled
    THEN Fail(ContextCanceled, cache, 0, NoFetch, FALSE)
    ELSE FileMetadataRead(module, ReadFile(MetadataPath(module), fault))

\* Source, after os.ReadFile
FileSourceRead(module, version, rd) ==
    IF rd.err # NoErr
    THEN Fail(ReadError(rd, module, version, "source"),
              cache, 0, NoFetch, TRUE)
    ELSE IF ~UnmarshalSource(rd.data).ok
    THEN Fail(Errorf("bcr: failed to parse source", JSONError),
              cache, 0, NoFetch, TRUE)
    ELSE Ret(NilMeta, UnmarshalSource(rd.data).val, "", << >>, NoErr,
             cache, 0, 0, NoFetch, TRUE)

\* (r *FileRegistry) Source(ctx, module, version)
FileSourceCall(r, module, version, cancelled, fault) ==
    IF cancelled
    THEN Fail(ContextCanceled, cache, 0, NoFetch, FALSE)
    ELSE FileSourceRead(module, version,
                        ReadFile(SourcePath(module, version), fault))

\* ModuleFile, after os.ReadFile
FileModuleFileRead(module, version, rd) ==
    IF rd.err # NoErr
    THEN Fail(ReadError(rd, module, version, "MODULE.bazel"),
              cache, 0, NoFetch, TRUE)
    ELSE Ret(NilMeta, NilSource, rd.data, << >>, NoErr,
             cache, 0, 0, NoFetch, TRUE)

\* (r *FileRegistry) ModuleFile(ctx, module, version)
FileModuleFileCall(r, module, version, cancelled, fault) ==
    IF cancelled
    THEN Fail(ContextCanceled, cache, 0, NoFetch, FALSE)
    ELSE FileModuleFileRead(module, version,
                            ReadFile(ModuleFilePath(module, version), fault))

\* the names os.ReadDir can return, in its order (sorted by file name)
EntryNames == <<"index.json", "nometa", "testmod">>

\* mutant: every directory is listed, with or without a metadata.json
ListScanEveryDir(i, stat) ==
    SelectSeq(SubSeq(EntryNames, i, Len(EntryNames)),
              LAMBDA n : n \in store.dirs)

\* the loop of ListModules over the sorted entries, from index i: an entry
\* is listed when it is a directory and os.Stat of its metadata.json
\* returns no error (the file is there and stat does not fault)
RECURSIVE ListScan(_, _)
ListScan(i, stat) ==
    IF i > Len(EntryNames) THEN << >>
    ELSE IF /\ EntryNames[i] \in store.dirs
            /\ ~stat
            /\ ~ReadFile(MetadataPath(EntryNames[i]), FALSE).notExist
         THEN <<EntryNames[i]>> \o ListScan(i + 1, stat)
         ELSE ListScan(i + 1, stat)

\* mutant: a missing modules/ directory is an empty listing
FileListModulesCallEmptyForMissing(r, cancelled, fault, stat) ==
    IF cancelled
    THEN Fail(ContextCanceled, cache, 0, NoFetch, FALSE)
    ELSE IF fault
    THEN Fail(Errorf("bcr: failed to list modules", OSFault),
              cache, 0, NoFetch, TRUE)
    ELSE IF ~store.modulesDir
    THEN Ret(NilMeta, NilSource, "", << >>, NoErr, cache,
             0, 0, NoFetch, TRUE)
    ELSE Ret(NilMeta, NilSource, "", ListScan(1, stat), NoErr, cache,
             0, 0, NoFetch, TRUE)

\* (r *FileRegistry) ListModules(ctx): fault is a fault of os.ReadDir, stat
\* a fault of the os.Stat calls of the loop
FileListModulesCall(r, cancelled, fault, stat) ==
    IF cancelled
    THEN Fail(ContextCanceled, cache, 0, NoFetch, FALSE)
    ELSE IF fault
    THEN Fail(Errorf("bcr: failed to list modules", OSFault),
              cache, 0, NoFetch, TRUE)
    ELSE IF ~store.modulesDir
    THEN Fail(ErrListingNotSupported, cache, 0, NoFetch, TRUE)
    ELSE Ret(NilMeta, NilSource, "", ListScan(1, stat), NoErr, cache,
             0, 0, NoFetch, TRUE)

\* the environment's choices for one call: whether the context is already
\* cancelled, how the endpoint behaves (mode), the faults of cache.get (gf)
\* and cache.set (sf), whether the read of the local tree faults (fault),
\* and whether the os.Stat of the local-tree ListModules faults (stat)
Env(cancelled, mode, gf, sf, fault, stat) ==
    [cancelled |-> cancelled, mode |-> mode, gf |-> gf, sf |-> sf,
     fault |-> fault, stat |-> stat]

\* the cache entry a call finds under its path, with its age at the call
Before(path) ==
    IF path \in CacheKeys /\ cache[path].present
    THEN [present |-> TRUE, data |-> cache[path].data,
          age |-> now - cache[path].mtime]
    ELSE [present |-> FALSE, data |-> "", age |-> 0]

\* what is remembered of a call: the operation and its arguments, the
\* environment's choices, whether the requested path had a file in the
\* backing store and what the cache held for it when the call was made,
\* and the return record without the cache files
CallRecord(op, module, version, path, e, r) ==
    [op |-> op, module |-> module, version |-> version, path |-> path,
     env |-> e,
     existed |-> (path \in DOMAIN store.files /\ store.files[path] # Absent),
     before |-> Before(path),
     meta |-> r.meta, src |-> r.src, bytes |-> r.bytes, names |-> r.names,
     err |-> r.err, gets |-> r.gets, sets |-> r.sets, httpDo |-> r.httpDo,
     resp |-> r.resp, fetched |-> r.fetched, ferr |-> r.ferr,
     disk |-> r.disk]

\* the call returns: the cache files are those it leaves, last is its record.
\* A choice of the environment that the call did not come to consult (the
\* fault of a cache.get or cache.set it did not make, the behaviour of an
\* endpoint it did not ask) is fixed, so that one call is one record
Returns(op, module, version, path, e, r) ==
    /\ r.gets = 0 => e.gf = "none"
    /\ r.httpDo = 0 => e.mode = "up"
    /\ r.sets = 0 => e.sf = "none"
    /\ cache' = r.cache
    /\ last' = CallRecord(op, module, version, path, e, r)

NoCall ==
    [op |-> "none", module |-> "", version |-> "", path |-> "",
     env |-> Env(FALSE, "up", "none", "none", FALSE, FALSE),
     existed |-> FALSE,
     before |-> [present |-> FALSE, data |-> "", age |-> 0],
     meta |-> NilMeta, src |-> NilSource, bytes |-> "", names |-> << >>,
     err |-> NoErr, gets |-> 0, sets |-> 0, httpDo |-> 0,
     resp |-> NoResp, fetched |-> "", ferr |-> NoErr, disk |-> FALSE]

EmptyCache == [k \in CacheKeys |-> NoEntry]

\* the configurations explored: every backend against every tree, except
\* that a client with a working cache meets the trees without MODULE.bazel
\* under the default time-to-live and the trees with one under its own
Setups ==
    { x \in (Clients \cup { NewFileRegistry("/registry") }) \X Stores :
        \/ x[1].kind = "file"
        \/ x[1].cache.isNil
        \/ ~JoinPathOK(x[1].baseURL)
        \/ x[2].files[ModuleFilePath("testmod", "1.0.0")] = Absent
              /\ x[1].cache.ttl = Hour
        \/ x[2].files[ModuleFilePath("testmod", "1.0.0")] # Absent
              /\ x[1].cache.ttl # Hour }

InitRemote ==
    /\ \E x \in Setups :
          /\ x[1].kind = "remote"
          /\ client = x[1]
          /\ store = x[2]
    /\ cache = EmptyCache
    /\ now = 0
    /\ last = NoCall
    /\ run = NoRun
    /\ meta = NilMeta
    /\ query = NoQuery

InitFile ==
    /\ \E x \in Setups :
          /\ x[1].kind = "file"
          /\ client = x[1]
          /\ store = x[2]
    /\ cache = EmptyCache
    /\ now = 0
    /\ last = NoCall
    /\ run = NoRun
    /\ meta = NilMeta
    /\ query = NoQuery

Init == InitRemote \/ InitFile

\* the environments of a call of the client under cache key `key`. Choices
\* that cannot influence the call are fixed: a cancelled request never
\* reaches the endpoint, and a cache fault needs a cache file to be read or
\* a fetched document to be written
CallEnvs(c, key) ==
    { e \in { Env(cancelled, mode, gf, sf, FALSE, FALSE) :
                cancelled \in BOOLEAN, mode \in ServerModes,
                gf \in GetFaults, sf \in SetFaults } :
        /\ e.cancelled => e.mode = "up"
        /\ (c.cache.isNil \/ ~cache[key].present) => e.gf = "none"
        /\ (\/ c.cache.isNil
            \/ e.cancelled
            \/ e.mode # "up"
            \/ store.files[key] = Absent) => e.sf = "none" }

\* the same for a call that does not use the cache
PlainEnvs ==
    { e \in { Env(cancelled, mode, "none", "none", FALSE, FALSE) :
                cancelled \in BOOLEAN, mode \in ServerModes } :
        e.cancelled => e.mode = "up" }

\* the environments of a call of the local-tree backend
FileEnvs ==
    { Env(cancelled, "up", "none", "none", fault, FALSE) :
        cancelled \in BOOLEAN, fault \in BOOLEAN }

\* the environments of a ListModules call of the local-tree backend: os.Stat
\* is only called for the directories that a successful os.ReadDir returned
FileListEnvs ==
    { e \in { Env(cancelled, "up", "none", "none", fault, stat) :
                cancelled \in BOOLEAN, fault \in BOOLEAN,
                stat \in BOOLEAN } :
        e.stat => (~e.cancelled /\ ~e.fault /\ store.dirs # {}) }

ClientMetadata ==
    /\ client.kind = "remote"
    /\ \E module \in Modules :
       \E e \in CallEnvs(client, MetadataPath(module)) :
          Returns("Metadata", module, "", MetadataPath(module), e,
                  ClientMetadataCall(client, module, e.cancelled, e.mode,
                                     e.gf, e.sf))
    /\ UNCHANGED <<run, meta, query, client, store, now>>

ClientSource ==
    /\ client.kind = "remote"
    /\ \E module \in Modules, version \in ReqVersions :
       \E e \in CallEnvs(client, SourcePath(module, version)) :
          Returns("Source", module, version, SourcePath(module, version), e,
                  ClientSourceCall(client, module, version, e.cancelled,
                                   e.mode, e.gf, e.sf))
    /\ UNCHANGED <<run, meta, query, client, store, now>>

ClientModuleFile ==
    /\ client.kind = "remote"
    /\ \E module \in Modules, version \in ReqVersions :
       \E e \in CallEnvs(client, ModuleFilePath(module, version)) :
          Returns("ModuleFile", module, version,
                  ModuleFilePath(module, version), e,
                  ClientModuleFileCall(client, module, version, e.cancelled,
                                       e.mode, e.gf, e.sf))
    /\ UNCHANGED <<run, meta, query, client, store, now>>

ClientListModules ==
    /\ client.kind = "remote"
    /\ \E e \in PlainEnvs :
          Returns("ListModules", "", "", IndexPath, e,
                  ClientListModulesCall(client, e.cancelled, e.mode))
    /\ UNCHANGED <<run, meta, query, client, store, now>>

FileMetadata ==
    /\ client.kind = "file"
    /\ \E module \in Modules, e \in FileEnvs :
          Returns("Metadata", module, "", MetadataPath(module), e,
                  FileMetadataCall(client, module, e.cancelled, e.fault))
    /\ UNCHANGED <<run, meta, query, client, store, now>>

FileSource ==
    /\ client.kind = "file"
    /\ \E module \in Modules, version \in ReqVersions, e \in FileEnvs :
          Returns("Source", module, version, SourcePath(module, version), e,
                  FileSourceCall(client, module, version, e.cancelled,
                                 e.fault))
    /\ UNCHANGED <<run, meta, query, client, store, now>>

FileModuleFile ==
    /\ client.kind = "file"
    /\ \E module \in Modules, version \in ReqVersions, e \in FileEnvs :
          Returns("ModuleFile", module, version,
                  ModuleFilePath(module, version), e,
                  FileModuleFileCall(client, module, version, e.cancelled,
                                     e.fault))
    /\ UNCHANGED <<run, meta, query, client, store, now>>

FileListModules ==
    /\ client.kind = "file"
    /\ \E e \in FileListEnvs :
          Returns("ListModules", "", "", IndexPath, e,
                  FileListModulesCall(client, e.cancelled, e.fault, e.stat))
    /\ UNCHANGED <<run, meta, query, client, store, now>>

\* the registry withdraws what it had published, under the backend
StoreChange ==
    /\ \E p \in Paths : store.files[p] # Absent
    /\ store' = Withdrawn
    /\ UNCHANGED <<run, meta, query, client, cache, now, last>>

\* time passes
Tick ==
    /\ client.kind = "remote"
    /\ now < MaxTime
    /\ now' = now + 1
    /\ UNCHANGED <<run, meta, query, client, store, cache, last>>

Next ==
    \/ ClientMetadata
    \/ ClientSource
    \/ ClientModuleFile
    \/ ClientListModules
    \/ FileMetadata
    \/ FileSource
    \/ FileModuleFile
    \/ FileListModules
    \/ StoreChange
    \/ Tick

Spec == Init /\ [][Next]_vars

(***************************************************************************)
(* Claims about the backends                                               *)
(*                                                                         *)
(* The claims are about one call, read from its record in last: what the   *)
(* call found (env, existed, before) and what it did and returned.  An     *)
(* underlying request is a call of c.http.Do.                              *)
(***************************************************************************)
\* the client has a cache directory configured
Cached == client.kind = "remote" /\ ~client.cache.isNil

\* the operations that return one resource
ResourceOps == { "Metadata", "Source", "ModuleFile" }

\* the last call was a metadata call of a caching client that found an entry
\* under its key: an earlier metadata call succeeded and wrote it
MetadataAgain ==
    /\ Cached
    /\ last.op = "Metadata"
    /\ last.before.present

\* C1 (as stated): on a remote backend with a cache directory, a metadata
\* call that follows a successful one issues no request while the age of
\* the cache entry does not exceed the time-to-live, and issues a request
\* once the age exceeds it.
C1_Original ==
    MetadataAgain =>
        /\ last.before.age <= client.cache.ttl => last.httpDo = 0
        /\ last.before.age > client.cache.ttl => last.httpDo = 1

\* C1 (amended): a metadata call that follows a successful one issues no
\* request, and returns the parsed entry, while the age of the entry does
\* not exceed the time-to-live, provided that reading the entry does not
\* fail and its bytes parse; when the read fails or the bytes do not parse
\* it issues one request; once the age exceeds the time-to-live it issues
\* one request; no call issues more than one.
C1_FreshnessGate ==
    MetadataAgain =>
        /\ last.httpDo <= 1
        /\ (/\ last.before.age <= client.cache.ttl
            /\ last.env.gf = "none"
            /\ UnmarshalMetadata(last.before.data).ok)
              => /\ last.httpDo = 0
                 /\ last.err = NoErr
                 /\ last.meta = UnmarshalMetadata(last.before.data).val
        /\ (/\ last.before.age <= client.cache.ttl
            /\ (\/ last.env.gf # "none"
                \/ ~UnmarshalMetadata(last.before.data).ok))
              => last.httpDo = 1
        /\ last.before.age > client.cache.ttl => last.httpDo = 1

\* C1 witness: a metadata call found an entry whose age had just reached
\* the time-to-live, and answered from it without a request.
C1_Witness ==
    /\ MetadataAgain
    /\ last.before.age > 0
    /\ last.before.age = client.cache.ttl
    /\ last.httpDo = 0
    /\ last.err = NoErr

\* the last call was a source or moduleFile call of a caching client that
\* found an entry under its key
ImmutableAgain ==
    /\ Cached
    /\ last.op \in { "Source", "ModuleFile" }
    /\ last.before.present

Answered ==
    /\ ~last.env.cancelled
    /\ client.kind = "remote" =>
          last.httpDo = 1 /\ last.env.mode \in { "up", "badbody" }
    /\ client.kind = "file" => ~last.env.fault

\* C3 (as stated): metadata, source and moduleFile, on both backends, return
\* NotFound if and only if the requested resource does not exist in the
\* backing store when the call is made.
C3_Original ==
    last.op \in ResourceOps =>
        (isNotFound(last.err) <=> ~last.existed)

\* C3 (amended): metadata, source and moduleFile, on both backends, return
\* NotFound only if the requested resource does not exist in the backing
\* store when the call is made, so an existing resource never yields
\* NotFound and every failure on one is another error.  A resource that does
\* not exist yields NotFound whenever the lookup is answered by the store;
\* otherwise it yields another error (cancellation, transport, I/O) or, on
\* the remote backend, the value still held by the cache.
C3_NotFoundOnlyIfAbsent ==
    last.op \in ResourceOps =>
        /\ isNotFound(last.err) => ~last.existed
        /\ (~last.existed /\ Answered) => isNotFound(last.err)
        /\ (~last.existed /\ last.err = NoErr) =>
              /\ Cached
              /\ last.before.present
              /\ last.httpDo = 0

\* C3 witness: a metadata call of the remote backend found a stale entry for
\* a module that had been withdrawn since, asked the endpoint and returned
\* NotFound.
C3_Witness ==
    /\ Cached
    /\ last.op = "Metadata"
    /\ last.before.present
    /\ ~last.existed
    /\ Answered
    /\ isNotFound(last.err)
    /\ last.err = NotFoundError("testmod", "", StatusNotFound)

\* C4 (as stated): an operation invoked with a context that is already
\* cancelled does no cache, disk or network I/O, returns an error and no
\* value, and the error is not matched by the not-found predicate.
C4_CancelledBeforeIO ==
    (last.op # "none" /\ last.env.cancelled) =>
        /\ last.err # NoErr
        /\ ~isNotFound(last.err)
        /\ last.gets = 0
        /\ last.sets = 0
        /\ ~last.resp.net
        /\ ~last.disk

\* the URL of the request of the last call
RequestURL == JoinPath(client.baseURL, last.path)

\* C10: the outcome of c.fetch is determined by what c.http.Do returned: a
\* transport failure gives a RequestError with the URL and the fault; status
\* 404 gives a NotFoundError with the requested module and version and 404;
\* any other status but 200 gives a RequestError with the URL and that
\* status; the body is returned only for status 200, with no error; and
\* metadata, source and moduleFile return the error of c.fetch as it is.
C10_OutcomeByResponse ==
    (client.kind = "remote" /\ last.httpDo = 1) =>
        /\ last.resp.err # NoErr =>
              last.ferr = RequestError(RequestURL, 0, last.resp.err)
        /\ (last.resp.err = NoErr /\ last.resp.StatusCode = StatusNotFound) =>
              last.ferr = NotFoundError(last.module, last.version,
                                        StatusNotFound)
        /\ (/\ last.resp.err = NoErr
            /\ last.resp.StatusCode \notin { StatusOK, StatusNotFound }) =>
              last.ferr = RequestError(RequestURL, last.resp.StatusCode, NoErr)
        /\ last.ferr = NoErr =>
              /\ last.resp.err = NoErr
              /\ last.resp.StatusCode = StatusOK
              /\ last.fetched = last.resp.body
        /\ last.ferr # NoErr => last.fetched = ""
        /\ (last.op \in ResourceOps /\ last.ferr # NoErr) =>
              last.err = last.ferr

\* C10 witness: a source request was answered 404 and the call returned the
\* NotFoundError with the module, the version and the status.
C10_Witness ==
    /\ client.kind = "remote"
    /\ last.op = "Source"
    /\ last.httpDo = 1
    /\ last.resp.StatusCode = StatusNotFound
    /\ last.err = NotFoundError("testmod", "1.0.0", StatusNotFound)

\* the bytes a call fetched are what its operation can return: they parse,
\* for metadata and source, and are taken as they are for moduleFile
FetchedParses(call) ==
    /\ call.op = "Metadata" => UnmarshalMetadata(call.fetched).ok
    /\ call.op = "Source" => UnmarshalSource(call.fetched).ok

\* C11: a metadata, source or moduleFile call of the remote backend that
\* returns an error (404, another status, a transport fault, a payload that
\* does not parse) leaves every cache file as it was and makes no call of
\* cache.set; a step that changes a cache file is a call that fetched with
\* no error, parsed what it fetched, returned no error, and changed only the
\* file under its own key.
C11_FailureLeavesCache ==
    [][ (client.kind = "remote" /\ last'.op \in ResourceOps) =>
            /\ last'.err # NoErr => (cache' = cache /\ last'.sets = 0)
            /\ cache' # cache =>
                  /\ last'.err = NoErr
                  /\ last'.httpDo = 1
                  /\ last'.ferr = NoErr
                  /\ FetchedParses(last')
                  /\ last'.sets = 1
                  /\ \A k \in CacheKeys \ { last'.path } :
                        cache'[k] = cache[k] ]_vars

\* C11 witness: a metadata call found a stale entry, was answered 500 and
\* returned the error; the entry is still in the cache with its bytes.
C11_Witness ==
    /\ Cached
    /\ last.op = "Metadata"
    /\ last.before.present
    /\ last.before.age > client.cache.ttl
    /\ last.httpDo = 1
    /\ last.resp.StatusCode = StatusInternalServerError
    /\ last.err # NoErr
    /\ cache[last.path].present
    /\ cache[last.path].data = last.before.data

\* the value a call returned is the one its fetched bytes stand for
ReturnsFetched(call) ==
    /\ call.op = "Metadata" =>
          call.meta = UnmarshalMetadata(call.fetched).val
    /\ call.op = "Source" => call.src = UnmarshalSource(call.fetched).val
    /\ call.op = "ModuleFile" => call.bytes = call.fetched

\* C12: when the fetch and the parse of a call succeed and cache.set fails
\* (os.MkdirAll or os.WriteFile), the call returns the fetched value and no
\* error; and every error a caching client returns from metadata, source or
\* moduleFile is the error of its fetch or the parse error of the fetched
\* bytes, whatever failed in cache.get or cache.set.
C12_CacheFaultsAbsorbed ==
    (Cached /\ last.op \in ResourceOps) =>
        /\ last.env.sf # "none" =>
              /\ last.sets = 1
              /\ last.ferr = NoErr
              /\ last.err = NoErr
              /\ ReturnsFetched(last)
        /\ last.env.gf # "none" =>
              /\ last.gets = 1
              /\ last.httpDo = 1
        /\ last.err # NoErr =>
              \/ last.ferr # NoErr /\ last.err = last.ferr
              \/ /\ last.ferr = NoErr
                 /\ ~FetchedParses(last)
                 /\ last.err.inner = << JSONError >>

\* C12 witness: os.WriteFile failed in the cache.set of a source call, which
\* left a truncated file and still returned the fetched source.
C12_Witness ==
    /\ Cached
    /\ last.op = "Source"
    /\ last.env.sf = "write"
    /\ last.err = NoErr
    /\ last.src = SourceDocs["S1"]
    /\ cache[last.path].data = Truncated

\* the index request was answered "not found"
IndexNotFound(call) ==
    /\ call.httpDo = 1
    /\ call.resp.err = NoErr
    /\ call.resp.StatusCode = StatusNotFound

\* the local tree was read: the context was live and os.ReadDir did not fault
TreeRead(call) == ~call.env.cancelled /\ ~call.env.fault

\* C13: ListModules tells "cannot enumerate" from "empty". The remote backend
\* returns ErrListingNotSupported when the index resource is not found, the
\* local-tree backend when modules/ does not exist; an existing modules/
\* directory without entries gives an empty sequence and no error; and an
\* empty sequence with no error is returned only after an enumeration: by
\* the remote backend for an index document that parses to an empty list,
\* by the local tree for a modules/ directory that exists and was read.
C13_ListingNotSupported ==
    [][ (store' = store /\ now' = now /\ last'.op = "ListModules") =>
          /\ (client.kind = "remote" /\ IndexNotFound(last')) =>
                last'.err = ErrListingNotSupported
          /\ (client.kind = "file" /\ TreeRead(last') /\ ~store.modulesDir) =>
                last'.err = ErrListingNotSupported
          /\ (/\ client.kind = "file"
              /\ TreeRead(last')
              /\ store.modulesDir
              /\ store.dirs = {}
              /\ store.others = {}) =>
                (last'.names = << >> /\ last'.err = NoErr)
          /\ (last'.names = << >> /\ last'.err = NoErr) =>
                /\ client.kind = "remote" =>
                      /\ last'.httpDo = 1
                      /\ last'.resp.StatusCode = StatusOK
                      /\ UnmarshalIndex(last'.fetched).ok
                      /\ UnmarshalIndex(last'.fetched).val = << >>
                /\ client.kind = "file" =>
                      (TreeRead(last') /\ store.modulesDir) ]_vars

\* a local tree whose modules/ directory exists and is empty was listed: the
\* answer is the empty sequence, not ErrListingNotSupported
C13_Witness ==
    /\ client.kind = "file"
    /\ last.op = "ListModules"
    /\ TreeRead(last)
    /\ store = Withdrawn
    /\ last.names = << >>
    /\ last.err = NoErr

(***************************************************************************)
(* Operations derived from Metadata (Latest, Versions, Exists,             *)
(* VersionExists). Each makes one c.Metadata call, whose record is kept in *)
(* last; query holds the derived call and what it returned.                *)
(***************************************************************************)
\* mutant: an empty result of meta.Latest() is returned as a version
ClientLatestCallNoEmptyCheck(module, r) ==
    IF r.err # NoErr THEN [str |-> EmptyStr, err |-> r.err]
    ELSE [str |-> Latest(r.meta), err |-> NoErr]

\* (c *Client) Latest(ctx, module), after c.Metadata returned r
ClientLatestCall(module, r) ==
    IF r.err # NoErr THEN [str |-> EmptyStr, err |-> r.err]
    ELSE IF Latest(r.meta) = EmptyStr
    THEN [str |-> EmptyStr, err |-> NotFoundError(module, "", 0)]
    ELSE [str |-> Latest(r.meta), err |-> NoErr]

\* one call of yield
Yield(v, err) == [v |-> v, err |-> err]

\* the loop of the iterator over meta.Versions from index i: the consumer's
\* yield returns false at the stop-th element (stop = 0: it never does)
\* mutant: the loop goes on after yield returned false
VersionsLoopIgnoreStop(vs, i, stop) ==
    IF i > Len(vs) THEN << >>
    ELSE [k \in 1..(Len(vs) - i + 1) |-> Yield(vs[k + i - 1], NoErr)]

RECURSIVE VersionsLoop(_, _, _)
VersionsLoop(vs, i, stop) ==
    IF i > Len(vs) THEN << >>
    ELSE IF i = stop THEN << Yield(vs[i], NoErr) >>
    ELSE << Yield(vs[i], NoErr) >> \o VersionsLoop(vs, i + 1, stop)

\* mutant: the error is yielded after the versions of the zero Metadata and
\* the iteration goes on to the loop
VersionsRangeErrorThenLoop(r, stop) ==
    IF r.err # NoErr
    THEN << Yield(EmptyStr, r.err), Yield(EmptyStr, NoErr) >>
    ELSE VersionsLoop(r.meta.Versions, 1, stop)

\* the function (c *Client) Versions returns, called with a yield: the
\* sequence of the calls of yield it makes, after c.Metadata returned r
VersionsRange(r, stop) ==
    IF r.err # NoErr
    THEN << Yield(EmptyStr, r.err) >>
    ELSE VersionsLoop(r.meta.Versions, 1, stop)

\* mutant: every error of c.Metadata means "does not exist"
ClientExistsCallAllFalse(r) ==
    IF r.err # NoErr THEN [bool |-> FALSE, err |-> NoErr]
    ELSE [bool |-> TRUE, err |-> NoErr]

\* (c *Client) Exists(ctx, module), after c.Metadata returned r
ClientExistsCall(r) ==
    IF r.err # NoErr
    THEN IF isNotFound(r.err)
         THEN [bool |-> FALSE, err |-> NoErr]
         ELSE [bool |-> FALSE, err |-> r.err]
    ELSE [bool |-> TRUE, err |-> NoErr]

\* (c *Client) VersionExists(ctx, module, version), after c.Metadata
\* returned r
ClientVersionExistsCall(version, r) ==
    IF r.err # NoErr
    THEN IF isNotFound(r.err)
         THEN [bool |-> FALSE, err |-> NoErr]
         ELSE [bool |-> FALSE, err |-> r.err]
    ELSE [bool |-> HasVersion(r.meta, version), err |-> NoErr]

\* the versions VersionExists is asked about
AskedVersions == { <<"1">>, <<"1", "-", "r">> }

\* what is remembered of a derived call
Derived(fn, module, arg, stop, consumed, str, bool, yields, err) ==
    [fn |-> fn, module |-> module, arg |-> arg, stop |-> stop,
     consumed |-> consumed, str |-> str, bool |-> bool, yields |-> yields,
     err |-> err]

\* the registries the derived operations are run against: one module with
\* each of the metadata documents, with a malformed one, and no module
DerivedStores ==
    { Tree(md, Absent, Absent, Absent, TRUE,
           IF md = Absent THEN {} ELSE {"testmod"}, {}) :
        md \in DOMAIN MetadataDocs \cup { "Mbad", Absent } }

\* the clients of the derived operations: without a cache, and with one
DerivedClients ==
    { New(DefaultBaseURL, "", 0), New(DefaultBaseURL, "/cache", 0) }

InitDerived ==
    /\ client \in DerivedClients
    /\ store \in DerivedStores
    /\ cache = EmptyCache
    /\ now = 0
    /\ last = NoCall
    /\ run = NoRun
    /\ meta = NilMeta
    /\ query = Derived("none", "", EmptyStr, 0, FALSE, EmptyStr, FALSE,
                       << >>, NoErr)

\* the environments of the c.Metadata call of a derived operation: those of
\* a Metadata call in which the cache files can be read and written
DerivedEnvs(c, key) ==
    { e \in CallEnvs(c, key) : e.gf = "none" /\ e.sf = "none" }

\* the c.Metadata call of a derived operation returns r
MetadataReturns(module, e, r) ==
    Returns("Metadata", module, "", MetadataPath(module), e, r)

LatestReturns(module, e, r) ==
    /\ MetadataReturns(module, e, r)
    /\ query' = Derived("Latest", module, EmptyStr, 0, FALSE,
                        ClientLatestCall(module, r).str, FALSE, << >>,
                        ClientLatestCall(module, r).err)

ClientLatest ==
    /\ \E module \in Modules :
       \E e \in DerivedEnvs(client, MetadataPath(module)) :
          LatestReturns(module, e,
              ClientMetadataCall(client, module, e.cancelled, e.mode,
                                 e.gf, e.sf))
    /\ UNCHANGED <<run, meta, client, store, now>>

\* c.Versions(ctx, module) returns the iterator: nothing else happens
ClientVersions ==
    /\ \E module \in Modules :
          query' = Derived("Versions", module, EmptyStr, 0, FALSE, EmptyStr,
                           FALSE, << >>, NoErr)
    /\ UNCHANGED <<run, meta, client, store, cache, now, last>>

RangeReturns(module, stop, e, r) ==
    /\ MetadataReturns(module, e, r)
    /\ query' = Derived("Versions", module, EmptyStr, stop, TRUE, EmptyStr,
                        FALSE, VersionsRange(r, stop), NoErr)

\* the iterator is ranged over by a consumer that stops at the stop-th
\* element, or not at all
RangeVersions ==
    /\ query.fn = "Versions"
    /\ \E stop \in 0..MaxStop :
       \E e \in DerivedEnvs(client, MetadataPath(query.module)) :
          RangeReturns(query.module, stop, e,
              ClientMetadataCall(client, query.module, e.cancelled, e.mode,
                                 e.gf, e.sf))
    /\ UNCHANGED <<run, meta, client, store, now>>

ExistsReturns(module, e, r) ==
    /\ MetadataReturns(module, e, r)
    /\ query' = Derived("Exists", module, EmptyStr, 0, FALSE, EmptyStr,
                        ClientExistsCall(r).bool, << >>,
                        ClientExistsCall(r).err)

ClientExists ==
    /\ \E module \in Modules :
       \E e \in DerivedEnvs(client, MetadataPath(module)) :
          ExistsReturns(module, e,
              ClientMetadataCall(client, module, e.cancelled, e.mode,
                                 e.gf, e.sf))
    /\ UNCHANGED <<run, meta, client, store, now>>

VersionExistsReturns(module, version, e, r) ==
    /\ MetadataReturns(module, e, r)
    /\ query' = Derived("VersionExists", module, version, 0, FALSE, EmptyStr,
                        ClientVersionExistsCall(version, r).bool, << >>,
                        ClientVersionExistsCall(version, r).err)

ClientVersionExists ==
    /\ \E module \in Modules, version \in AskedVersions :
       \E e \in DerivedEnvs(client, MetadataPath(module)) :
          VersionExistsReturns(module, version, e,
              ClientMetadataCall(client, module, e.cancelled, e.mode,
                                 e.gf, e.sf))
    /\ UNCHANGED <<run, meta, client, store, now>>

NextDerived ==
    \/ ClientLatest
    \/ ClientVersions
    \/ RangeVersions
    \/ ClientExists
    \/ ClientVersionExists
    \/ StoreChange
    \/ Tick

SpecDerived == InitDerived /\ [][NextDerived]_vars

(***************************************************************************)
(* Resolver specification: a Metadata value is drawn, and the query        *)
(* methods are applied to it; query holds the last call and its result.    *)
(***************************************************************************)
InitResolver ==
    /\ meta \in Metadatas
    /\ query = NoQuery
    /\ client = NewFileRegistry("/registry")
    /\ store = Tree(Absent, Absent, Absent, Absent, FALSE, {}, {})
    /\ cache = EmptyCache
    /\ now = 0
    /\ last = NoCall
    /\ run = NoRun

CallIsYanked ==
    \E v \in VersionStrings :
        /\ query' = [fn |-> "IsYanked", arg |-> v, str |-> EmptyStr,
                     reason |-> "", bool |-> IsYanked(meta, v)]
        /\ UNCHANGED <<run, meta, client, store, cache, now, last>>

CallYankReason ==
    \E v \in VersionStrings :
        /\ query' = [fn |-> "YankReason", arg |-> v, str |-> EmptyStr,
                     reason |-> YankReason(meta, v), bool |-> FALSE]
        /\ UNCHANGED <<run, meta, client, store, cache, now, last>>

CallHasVersion ==
    \E v \in VersionStrings :
        /\ query' = [fn |-> "HasVersion", arg |-> v, str |-> EmptyStr,
                     reason |-> "", bool |-> HasVersion(meta, v)]
        /\ UNCHANGED <<run, meta, client, store, cache, now, last>>

CallLatest ==
    /\ query' = [fn |-> "Latest", arg |-> EmptyStr, str |-> Latest(meta),
                 reason |-> "", bool |-> FALSE]
    /\ UNCHANGED <<run, meta, client, store, cache, now, last>>

CallLatestStable ==
    /\ query' = [fn |-> "LatestStable", arg |-> EmptyStr,
                 str |-> LatestStable(meta), reason |-> "", bool |-> FALSE]
    /\ UNCHANGED <<run, meta, client, store, cache, now, last>>

NextResolver ==
    \/ CallIsYanked
    \/ CallYankReason
    \/ CallHasVersion
    \/ CallLatest
    \/ CallLatestStable

SpecResolver == InitResolver /\ [][NextResolver]_vars

(***************************************************************************)
(* Claims about the version resolver                                       *)
(***************************************************************************)
\* v is a key of the yankedVersions map of m
KeyOfYanked(m, v) ==
    /\ ~m.YankedVersions.isNil
    /\ v \in DOMAIN m.YankedVersions.kv

AllYanked(m) ==
    \A i \in 1..Len(m.Versions) : KeyOfYanked(m, m.Versions[i])

\* the empty string occurs in versions as an entry that is not yanked
HasUnyankedEmpty(m) ==
    \E i \in 1..Len(m.Versions) :
        m.Versions[i] = EmptyStr /\ ~KeyOfYanked(m, EmptyStr)

\* C5 (as stated): for every Metadata, latest() is the empty string if and
\* only if versions is empty or every element of versions is a key of
\* yankedVersions.
C5_Original ==
    (query.fn = "Latest" /\ ~meta.isNil) =>
        (query.str = EmptyStr <=>
            (Len(meta.Versions) = 0 \/ AllYanked(meta)))

\* C5 (amended): if versions is empty or every element is yanked, latest()
\* is the empty string; and for every Metadata in which the empty string is
\* not a non-yanked element of versions, latest() is the empty string only
\* if versions is empty or every element is yanked.
C5_LatestEmptyIff ==
    (query.fn = "Latest" /\ ~meta.isNil) =>
        /\ (Len(meta.Versions) = 0 \/ AllYanked(meta)) => query.str = EmptyStr
        /\ (query.str = EmptyStr /\ ~HasUnyankedEmpty(meta)) =>
                (Len(meta.Versions) = 0 \/ AllYanked(meta))

\* C5 witness: latest() was applied to a non-empty list, with a duplicate,
\* whose entries are all yanked.
C5_Witness ==
    /\ query.fn = "Latest"
    /\ ~meta.isNil
    /\ Len(meta.Versions) = 3
    /\ meta.Versions[1] = meta.Versions[3]
    /\ meta.Versions[1] # meta.Versions[2]
    /\ AllYanked(meta)
    /\ query.str = EmptyStr

NoVersionYanked(m) ==
    \A i \in 1..Len(m.Versions) : ~KeyOfYanked(m, m.Versions[i])

\* C6 (as stated): for every Metadata whose yankedVersions contains no
\* element of versions, latest() equals the last element of versions, and
\* latest() is the empty string if and only if versions is empty.
C6_Original ==
    (query.fn = "Latest" /\ ~meta.isNil /\ NoVersionYanked(meta)) =>
        /\ Len(meta.Versions) > 0 =>
                query.str = meta.Versions[Len(meta.Versions)]
        /\ query.str = EmptyStr <=> Len(meta.Versions) = 0

\* C6 (amended): for every Metadata whose yankedVersions contains no element
\* of versions, latest() equals the last element of versions when versions
\* is not empty and is the empty string when versions is empty; so it is the
\* empty string if and only if versions is empty or its last element is the
\* empty string.
C6_LatestIsLast ==
    (query.fn = "Latest" /\ ~meta.isNil /\ NoVersionYanked(meta)) =>
        /\ Len(meta.Versions) > 0 =>
                query.str = meta.Versions[Len(meta.Versions)]
        /\ Len(meta.Versions) = 0 => query.str = EmptyStr
        /\ query.str = EmptyStr <=>
                (\/ Len(meta.Versions) = 0
                 \/ meta.Versions[Len(meta.Versions)] = EmptyStr)

\* C6 witness: latest() on three distinct versions, none yanked although the
\* yank map has a key, returned the last one.
C6_Witness ==
    /\ query.fn = "Latest"
    /\ ~meta.isNil
    /\ NoVersionYanked(meta)
    /\ Len(meta.Versions) = 3
    /\ meta.Versions[1] # meta.Versions[3]
    /\ meta.Versions[2] # meta.Versions[3]
    /\ ~meta.YankedVersions.isNil
    /\ DOMAIN meta.YankedVersions.kv # {}
    /\ query.str = meta.Versions[3]
    /\ query.str # EmptyStr

\* C7: neither latest() nor latestStable() returns a yanked version: any
\* non-empty result v is not a key of yankedVersions and occurs in versions.
C7_NeverYanked ==
    (query.fn \in {"Latest", "LatestStable"} /\ query.str # EmptyStr) =>
        /\ ~meta.isNil
        /\ ~KeyOfYanked(meta, query.str)
        /\ \E i \in 1..Len(meta.Versions) : meta.Versions[i] = query.str

\* C7 witness: latestStable() skipped a yanked newest entry and returned an
\* older one.
C7_Witness ==
    /\ query.fn = "LatestStable"
    /\ ~meta.isNil
    /\ Len(meta.Versions) = 3
    /\ KeyOfYanked(meta, meta.Versions[3])
    /\ query.str # EmptyStr
    /\ query.str = meta.Versions[1]

\* C8: if latestStable() returns a version classified as a prerelease, then
\* versions has no entry that is both non-yanked and non-prerelease.
C8_PrereleaseOnlyFallback ==
    (query.fn = "LatestStable" /\ IsPrerelease(query.str)) =>
        \A i \in 1..Len(meta.Versions) :
            KeyOfYanked(meta, meta.Versions[i]) \/ IsPrerelease(meta.Versions[i])

\* C8 witness: latestStable() returned a prerelease although a stable
\* version is listed, because every stable entry is yanked.
C8_Witness ==
    /\ query.fn = "LatestStable"
    /\ ~meta.isNil
    /\ IsPrerelease(query.str)
    /\ \E i \in 1..Len(meta.Versions) :
            /\ ~IsPrerelease(meta.Versions[i])
            /\ KeyOfYanked(meta, meta.Versions[i])

\* C9: on an absent (nil) Metadata every query returns its "no match" value
\* (false, the empty string), and that value is the one the same query
\* returns on an empty Metadata.
C9_NilIsEmpty ==
    meta.isNil =>
        /\ query.fn = "IsYanked" =>
                query.bool = FALSE /\ query.bool = IsYanked(EmptyMeta, query.arg)
        /\ query.fn = "YankReason" =>
                query.reason = "" /\ query.reason = YankReason(EmptyMeta, query.arg)
        /\ query.fn = "HasVersion" =>
                query.bool = FALSE /\ query.bool = HasVersion(EmptyMeta, query.arg)
        /\ query.fn = "Latest" =>
                query.str = EmptyStr /\ query.str = Latest(EmptyMeta)
        /\ query.fn = "LatestStable" =>
                query.str = EmptyStr /\ query.str = LatestStable(EmptyMeta)

\* C9 witness: isYanked was applied to the nil Metadata.
C9_Witness ==
    /\ meta.isNil
    /\ query.fn = "IsYanked"
    /\ query.arg = <<"1">>
    /\ query.bool = FALSE

(***************************************************************************)
(* Claims about the derived operations                                     *)
(***************************************************************************)
\* the iterator of c.Versions was ranged over, and last is the record of the
\* c.Metadata call it made
Ranged == query.fn = "Versions" /\ query.consumed

\* C14: when the c.Metadata call under the versions sequence fails, ranging
\* over the sequence yields exactly one element, which carries that error and
\* no version, and then stops; and an element carrying an error is never
\* preceded or followed by another element.
C14_SingleErrorElement ==
    Ranged =>
        /\ last.err # NoErr =>
              query.yields = << Yield(EmptyStr, last.err) >>
        /\ \A i \in 1..Len(query.yields) :
              query.yields[i].err # NoErr =>
                  (Len(query.yields) = 1 /\ last.err # NoErr)

\* C14 witness: the iterator was ranged over by a consumer that never stops,
\* against a registry that answered "not found"; one element was yielded.
C14_Witness ==
    /\ Ranged
    /\ query.stop = 0
    /\ last.httpDo = 1
    /\ last.resp.StatusCode = StatusNotFound
    /\ Len(query.yields) = 1
    /\ query.yields[1].err = NotFoundError("testmod", "", StatusNotFound)

\* the indexes of the entries of versions that are not yanked
UnyankedIndexes(m) ==
    { i \in 1..Len(m.Versions) : ~KeyOfYanked(m, m.Versions[i]) }

\* the entry of versions at the highest index that is not yanked
NewestUnyanked(m) ==
    m.Versions[CHOOSE i \in UnyankedIndexes(m) :
                   \A j \in UnyankedIndexes(m) : j <= i]

MetadataNotFound ==
    /\ last.err # NoErr
    /\ last.httpDo = 1
    /\ last.resp.err = NoErr
    /\ last.resp.StatusCode = StatusNotFound
    /\ last.err.kind = "NotFoundError"

\* C19: Exists returns (true, nil) when the metadata call succeeds,
\* (false, nil) exactly when it fails with a not-found error, and (false,
\* that error) for every other failure; VersionExists does the same, except
\* that after a successful metadata call it returns HasVersion(version) of
\* the metadata.
C19_ExistsOutcome ==
    /\ query.fn \in { "Exists", "VersionExists" } =>
          /\ MetadataNotFound => (~query.bool /\ query.err = NoErr)
          /\ (last.err # NoErr /\ ~MetadataNotFound) =>
                (~query.bool /\ query.err = last.err)
    /\ query.fn = "Exists" =>
          /\ last.err = NoErr => (query.bool /\ query.err = NoErr)
          /\ (~query.bool /\ query.err = NoErr) => MetadataNotFound
    /\ (query.fn = "VersionExists" /\ last.err = NoErr) =>
          /\ query.bool = HasVersion(last.meta, query.arg)
          /\ query.err = NoErr

\* C19 witness: Exists met an endpoint that answered 500 and returned
\* (false, the RequestError).
C19_Witness ==
    /\ query.fn = "Exists"
    /\ last.httpDo = 1
    /\ last.resp.StatusCode = StatusInternalServerError
    /\ ~query.bool
    /\ query.err = last.err
    /\ query.err.kind = "RequestError"

(***************************************************************************)
(* Error specification: an error value is drawn and isNotFound is applied  *)
(* to it; query holds the error and the answer.                            *)
(***************************************************************************)
\* the errors without a wrapped error that occur in the package
LeafErrors ==
    { ErrNotFound,
      ErrListingNotSupported,
      ContextCanceled,
      OSFault,
      JSONError,
      LeafErr("dial tcp: connection refused"),
      NotFoundError("testmod", "", 0),
      NotFoundError("testmod", "1.0.0", StatusNotFound) }

\* the error values of nesting depth at most d: the leaves, and the errors
\* that wrap a shallower one as a RequestError, through fmt.Errorf with %w,
\* or joined with an I/O error on either side
RECURSIVE ErrorsOfDepth(_)
ErrorsOfDepth(d) ==
    IF d = 0 THEN LeafErrors
    ELSE ErrorsOfDepth(d - 1)
         \cup { RequestError(DefaultBaseURL, StatusInternalServerError, NoErr) }
         \cup { RequestError(DefaultBaseURL, 0, e) : e \in ErrorsOfDepth(d - 1) }
         \cup { Errorf("bcr: failed", e) : e \in ErrorsOfDepth(d - 1) }
         \cup { JoinError(<<e, OSFault>>) : e \in ErrorsOfDepth(d - 1) }
         \cup { JoinError(<<OSFault, e>>) : e \in ErrorsOfDepth(d - 1) }

ErrorCase(fn, err, bool) == [fn |-> fn, err |-> err, bool |-> bool]

InitErrors ==
    /\ \E e \in ErrorsOfDepth(MaxDepth) \cup { NoErr } :
          query = ErrorCase("none", e, FALSE)
    /\ meta = NilMeta
    /\ client = NewFileRegistry("/registry")
    /\ store = Tree(Absent, Absent, Absent, Absent, FALSE, {}, {})
    /\ cache = EmptyCache
    /\ now = 0
    /\ last = NoCall
    /\ run = NoRun

CallIsNotFound ==
    /\ query.fn = "none"
    /\ query' = ErrorCase("isNotFound", query.err, isNotFound(query.err))
    /\ UNCHANGED <<run, meta, client, store, cache, now, last>>

NextErrors == CallIsNotFound

SpecErrors == InitErrors /\ [][NextErrors]_vars

(***************************************************************************)
(* Claims about errors                                                     *)
(***************************************************************************)
\* err is the NotFound sentinel or a NotFoundError, or wraps one at some
\* depth (the errors that errors.Is(err, ErrNotFound) accepts)
RECURSIVE WrapsNotFound(_)
WrapsNotFound(err) ==
    /\ err # NoErr
    /\ \/ err = ErrNotFound
       \/ err.kind = "NotFoundError"
       \/ \E i \in 1..Len(err.inner) : WrapsNotFound(err.inner[i])

\* C16: isNotFound holds for an error if and only if the error is the
\* ErrNotFound sentinel, is a NotFoundError, or wraps one of these at any
\* nesting depth; so it is false for nil and for transport, I/O, parse,
\* listing-not-supported and cancellation errors that wrap no NotFound.
C16_NotFoundIffWraps ==
    query.fn = "isNotFound" => (query.bool <=> WrapsNotFound(query.err))

(***************************************************************************)
(* Location specification (file.go): a location string, as a sequence of   *)
(* characters, is drawn and NewFileRegistryFromURL is applied to it; query *)
(* holds the string and the two results.                                   *)
(***************************************************************************)
\* the characters of the location strings, with their byte values: two
\* letters, a digit, the separators, and the neighbours of the letter ranges
Ord ==
    ( "C" :> 67 @@ "z" :> 122 @@ "1" :> 49 @@ ":" :> 58 @@ "/" :> 47 @@
      "\\" :> 92 @@ "@" :> 64 @@ "[" :> 91 @@
      "f" :> 102 @@ "i" :> 105 @@ "l" :> 108 @@ "e" :> 101 @@
      "h" :> 104 @@ "t" :> 116 @@ "p" :> 112 )

FileScheme == <<"f", "i", "l", "e", ":", "/", "/">>

\* strings.HasPrefix(s, prefix)
HasPrefix(s, prefix) ==
    /\ Len(s) >= Len(prefix)
    /\ SubSeq(s, 1, Len(prefix)) = prefix

\* strings.TrimPrefix(s, prefix)
TrimPrefix(s, prefix) ==
    IF HasPrefix(s, prefix) THEN SubSeq(s, Len(prefix) + 1, Len(s)) ELSE s

\* mutant: the separator after the colon is not required
isWindowsAbsolutePathNoSeparator(path) ==
    IF Len(path) < 3 THEN FALSE
    ELSE IF ~(\/ Ord[path[1]] >= 65 /\ Ord[path[1]] <= 90
              \/ Ord[path[1]] >= 97 /\ Ord[path[1]] <= 122)
    THEN FALSE
    ELSE path[2] = ":"

\* isWindowsAbsolutePath(path): 'A' is 65, 'Z' 90, 'a' 97 and 'z' 122
isWindowsAbsolutePath(path) ==
    IF Len(path) < 3 THEN FALSE
    ELSE IF ~(\/ Ord[path[1]] >= 65 /\ Ord[path[1]] <= 90
              \/ Ord[path[1]] >= 97 /\ Ord[path[1]] <= 122)
    THEN FALSE
    ELSE IF path[2] # ":" THEN FALSE
    ELSE path[3] = "\\" \/ path[3] = "/"

\* the nil *FileRegistry
NilRegistry ==
    [kind |-> "nil", baseURL |-> "", root |-> << >>, cache |-> NilCache]

\* NewFileRegistryFromURL(url): the registry and the boolean
NewFileRegistryFromURL(url) ==
    IF HasPrefix(url, FileScheme)
    THEN [reg |-> NewFileRegistry(TrimPrefix(url, FileScheme)), ok |-> TRUE]
    ELSE IF HasPrefix(url, <<"/">>)
    THEN [reg |-> NewFileRegistry(url), ok |-> TRUE]
    ELSE IF isWindowsAbsolutePath(url)
    THEN [reg |-> NewFileRegistry(url), ok |-> TRUE]
    ELSE [reg |-> NilRegistry, ok |-> FALSE]

\* the location strings: nothing, the file scheme, a near miss of it or the
\* http scheme, followed by up to MaxLen characters
LocationHeads ==
    { << >>,
      FileScheme,
      <<"f", "i", "l", "e", ":", "/">>,
      <<"h", "t", "t", "p", ":", "/", "/">> }

LocationChars == { "C", "z", "1", ":", "/", "\\", "@", "[" }

Locations ==
    { h \o t : h \in LocationHeads, t \in SeqsUpTo(LocationChars, MaxLen) }

LocationCase(fn, url, reg, ok) ==
    [fn |-> fn, url |-> url, reg |-> reg, ok |-> ok]

InitLocation ==
    /\ \E url \in Locations :
          query = LocationCase("none", url, NilRegistry, FALSE)
    /\ meta = NilMeta
    /\ client = NewFileRegistry("/registry")
    /\ store = Tree(Absent, Absent, Absent, Absent, FALSE, {}, {})
    /\ cache = EmptyCache
    /\ now = 0
    /\ last = NoCall
    /\ run = NoRun

CallNewFileRegistryFromURL ==
    /\ query.fn = "none"
    /\ query' = LocationCase("NewFileRegistryFromURL", query.url,
                             NewFileRegistryFromURL(query.url).reg,
                             NewFileRegistryFromURL(query.url).ok)
    /\ UNCHANGED <<run, meta, client, store, cache, now, last>>

NextLocation == CallNewFileRegistryFromURL

SpecLocation == InitLocation /\ [][NextLocation]_vars

(***************************************************************************)
(* Claims about locations                                                  *)
(***************************************************************************)
\* the three rules, stated on the characters
FileSchemeRule(u) ==
    /\ Len(u) >= 7
    /\ \A i \in 1..7 : u[i] = FileScheme[i]

LeadingSlashRule(u) == Len(u) >= 1 /\ u[1] = "/"

DriveRule(u) ==
    /\ Len(u) >= 3
    /\ u[1] \in { "C", "z" }
    /\ u[2] = ":"
    /\ u[3] \in { "\\", "/" }

\* C17: a location string is classified by three rules: the file:// prefix
\* (the root is what follows the scheme, verbatim), a leading "/", and the
\* drive form: one ASCII letter, ":", then "\" or "/" (the root is the input
\* verbatim for both). The string is a file location if and only if a rule
\* matches; every other string (relative paths, http URLs, "C:relative",
\* "C:") gives the nil registry and false.
C17_LocationRules ==
    query.fn = "NewFileRegistryFromURL" =>
        /\ FileSchemeRule(query.url) =>
              /\ query.ok
              /\ query.reg.kind = "file"
              /\ query.reg.root = SubSeq(query.url, 8, Len(query.url))
              /\ FileScheme \o query.reg.root = query.url
        /\ (LeadingSlashRule(query.url) \/ DriveRule(query.url)) =>
              /\ query.ok
              /\ query.reg.kind = "file"
              /\ query.reg.root = query.url
        /\ query.ok <=> (\/ FileSchemeRule(query.url)
                         \/ LeadingSlashRule(query.url)
                         \/ DriveRule(query.url))
        /\ ~query.ok => query.reg = NilRegistry

\* C17 witness: "z:\" was classified as a file location with itself as root
C17_Witness ==
    /\ query.fn = "NewFileRegistryFromURL"
    /\ query.url = <<"z", ":", "\\">>
    /\ query.ok
    /\ query.reg.root = <<"z", ":", "\\">>

(***************************************************************************)
(* Further claims about the version resolver                               *)
(***************************************************************************)
\* m without the entry of versions at index i
WithoutEntry(m, i) ==
    [m EXCEPT !.Versions = SubSeq(m.Versions, 1, i - 1) \o
                           SubSeq(m.Versions, i + 1, Len(m.Versions))]

\* C20: for every Metadata, latest() is the entry of versions at the highest
\* index that is not a key of yankedVersions (the empty string when there is
\* none), and duplicates do not change the result: dropping an entry that
\* occurs again at a higher index leaves latest() as it is.
C20_LatestNewestUnyanked ==
    (query.fn = "Latest" /\ ~meta.isNil) =>
        /\ UnyankedIndexes(meta) # {} => query.str = NewestUnyanked(meta)
        /\ UnyankedIndexes(meta) = {} => query.str = EmptyStr
        /\ \A i \in 1..Len(meta.Versions) :
              (\E j \in (i + 1)..Len(meta.Versions) :
                    meta.Versions[j] = meta.Versions[i]) =>
                  Latest(WithoutEntry(meta, i)) = query.str

\* C20 witness: latest() on three entries, the first two equal and the third
\* yanked, returned the second.
C20_Witness ==
    /\ query.fn = "Latest"
    /\ ~meta.isNil
    /\ Len(meta.Versions) = 3
    /\ meta.Versions[1] = meta.Versions[2]
    /\ KeyOfYanked(meta, meta.Versions[3])
    /\ ~KeyOfYanked(meta, meta.Versions[2])
    /\ query.str = meta.Versions[2]
    /\ query.str # EmptyStr

(***************************************************************************)
(* Cache specification: goroutines sharing one cache call cache.get and    *)
(* cache.set; each action is one statement of one goroutine. run.mu is the *)
(* sync.RWMutex, run.g[t] the position of goroutine t and what it holds.   *)
(***************************************************************************)
\* the keys and the payload the goroutines use
LockKeys == { MetadataPath("testmod"), SourcePath("testmod", "1.0.0") }

LockData == "M1"

\* goroutine t is at statement pc of a call with these arguments
At(pc, key, checkTTL, data, ok, torn) ==
    [pc |-> pc, key |-> key, checkTTL |-> checkTTL, data |-> data,
     ok |-> ok, torn |-> torn]

\* goroutine t moves to pc, keeping its arguments (a get keeps only the key
\* once the freshness test is made: checkTTL is not read again)
Goto(t, pc) == [run.g[t] EXCEPT !.pc = pc]

InitCache ==
    /\ client = New(DefaultBaseURL, "/cache", 0)
    /\ store = Tree("M1", "S1", Absent, Absent, TRUE, {"testmod"}, {})
    /\ cache = [EmptyCache EXCEPT ![MetadataPath("testmod")] = Entry("M1", 0)]
    /\ now = MaxTime
    /\ last = NoCall
    /\ run = NoRun
    /\ meta = NilMeta
    /\ query = NoQuery

\* c.get(key, checkTTL) is called
GetCall(t) ==
    /\ run.g[t].pc = "idle"
    /\ \E key \in LockKeys, checkTTL \in BOOLEAN :
          run' = [run EXCEPT !.g[t] =
                      At("RLock", key, checkTTL, "", FALSE, FALSE)]
    /\ UNCHANGED <<meta, query, client, store, cache, now, last>>

\* c.mu.RLock(): blocks while a writer holds or waits for the lock
GetRLock(t) ==
    /\ run.g[t].pc = "RLock"
    /\ run.mu.w = "none"
    /\ run' = [run EXCEPT !.mu.readers = @ \cup {t},
                          !.g[t] = Goto(t, "Stat")]
    /\ UNCHANGED <<meta, query, client, store, cache, now, last>>

\* os.Stat(p) and the freshness test: on an error (no file, or a fault) and
\* on a stale entry the call returns (nil, false)
GetStat(t) ==
    /\ run.g[t].pc = "Stat"
    /\ \E fault \in BOOLEAN :
          run' = [run EXCEPT !.g[t] =
                    IF fault \/ ~cache[run.g[t].key].present
                    THEN At("RUnlock", run.g[t].key, FALSE, "", FALSE, FALSE)
                    ELSE IF /\ run.g[t].checkTTL
                            /\ now - cache[run.g[t].key].mtime >
                                  client.cache.ttl
                    THEN At("RUnlock", run.g[t].key, FALSE, "", FALSE, FALSE)
                    ELSE At("ReadFile", run.g[t].key, FALSE, "", FALSE,
                            FALSE)]
    /\ UNCHANGED <<meta, query, client, store, cache, now, last>>

\* some goroutine has truncated the file of key and not yet written it
MidWrite(key) ==
    \E u \in Goroutines : run.g[u].pc = "Write" /\ run.g[u].key = key

\* os.ReadFile(p): the bytes the file holds now; torn records that they are
\* those of a write in progress
GetReadFile(t) ==
    /\ run.g[t].pc = "ReadFile"
    /\ \E fault \in BOOLEAN :
          run' = [run EXCEPT !.g[t] =
                    IF fault \/ ~cache[run.g[t].key].present
                    THEN Goto(t, "RUnlock")
                    ELSE At("RUnlock", run.g[t].key, FALSE,
                            cache[run.g[t].key].data, TRUE,
                            MidWrite(run.g[t].key))]
    /\ UNCHANGED <<meta, query, client, store, cache, now, last>>

\* the deferred c.mu.RUnlock(), and the return
GetRUnlock(t) ==
    /\ run.g[t].pc = "RUnlock"
    /\ run' = [run EXCEPT !.mu.readers = @ \ {t}, !.g[t] = Idle]
    /\ UNCHANGED <<meta, query, client, store, cache, now, last>>

\* c.set(key, data) is called
SetCall(t) ==
    /\ run.g[t].pc = "idle"
    /\ \E key \in LockKeys :
          run' = [run EXCEPT !.g[t] =
                      At("Lock", key, FALSE, LockData, FALSE, FALSE)]
    /\ UNCHANGED <<meta, query, client, store, cache, now, last>>

\* c.mu.Lock(), first half: the writer side is taken, which keeps other
\* writers and new readers out
SetLock(t) ==
    /\ run.g[t].pc = "Lock"
    /\ run.mu.w = "none"
    /\ run' = [run EXCEPT !.mu.w = t, !.g[t] = Goto(t, "LockWait")]
    /\ UNCHANGED <<meta, query, client, store, cache, now, last>>

\* mutant: Lock returns while readers still hold the lock
SetLockWaitNoDrain(t) ==
    /\ run.g[t].pc = "LockWait"
    /\ run' = [run EXCEPT !.g[t] = Goto(t, "MkdirAll")]
    /\ UNCHANGED <<meta, query, client, store, cache, now, last>>

\* c.mu.Lock(), second half: Lock returns when the readers have left
SetLockWait(t) ==
    /\ run.g[t].pc = "LockWait"
    /\ run.mu.readers = {}
    /\ run' = [run EXCEPT !.g[t] = Goto(t, "MkdirAll")]
    /\ UNCHANGED <<meta, query, client, store, cache, now, last>>

\* os.MkdirAll: on an error set returns
SetMkdirAll(t) ==
    /\ run.g[t].pc = "MkdirAll"
    /\ \E fault \in BOOLEAN :
          run' = [run EXCEPT !.g[t] =
                    Goto(t, IF fault THEN "Unlock" ELSE "WriteFile")]
    /\ UNCHANGED <<meta, query, client, store, cache, now, last>>

\* os.WriteFile, opening: the file is created or truncated. A failure to
\* open it leaves it as it was
SetWriteFile(t) ==
    /\ run.g[t].pc = "WriteFile"
    /\ \E fault \in BOOLEAN :
          IF fault
          THEN /\ run' = [run EXCEPT !.g[t] = Goto(t, "Unlock")]
               /\ cache' = cache
          ELSE /\ run' = [run EXCEPT !.g[t] = Goto(t, "Write")]
               /\ cache' = [cache EXCEPT ![run.g[t].key] =
                                Entry(Truncated, now)]
    /\ UNCHANGED <<meta, query, client, store, now, last>>

\* os.WriteFile, writing: the bytes are written, or the write fails and the
\* file stays truncated; the error is discarded
SetWrite(t) ==
    /\ run.g[t].pc = "Write"
    /\ \E fault \in BOOLEAN :
          /\ run' = [run EXCEPT !.g[t] = Goto(t, "Unlock")]
          /\ cache' = IF fault THEN cache
                      ELSE cacheSet(client.cache, run.g[t].key,
                                    run.g[t].data, "none")
    /\ UNCHANGED <<meta, query, client, store, now, last>>

\* the deferred c.mu.Unlock(), and the return
SetUnlock(t) ==
    /\ run.g[t].pc = "Unlock"
    /\ run' = [run EXCEPT !.mu.w = "none", !.g[t] = Idle]
    /\ UNCHANGED <<meta, query, client, store, cache, now, last>>

\* a statement of goroutine t inside a call
Progress(t) ==
    \/ GetRLock(t)
    \/ GetStat(t)
    \/ GetReadFile(t)
    \/ GetRUnlock(t)
    \/ SetLock(t)
    \/ SetLockWait(t)
    \/ SetMkdirAll(t)
    \/ SetWriteFile(t)
    \/ SetWrite(t)
    \/ SetUnlock(t)

NextCache ==
    \E t \in Goroutines :
        \/ GetCall(t)
        \/ SetCall(t)
        \/ Progress(t)

\* a goroutine that can execute its next statement eventually does (the Go
\* scheduler runs every runnable goroutine); it need not make a new call
SpecCache ==
    /\ InitCache
    /\ [][NextCache]_vars
    /\ \A t \in Goroutines : WF_vars(Progress(t))

(***************************************************************************)
(* Claims about the cache lock                                             *)
(***************************************************************************)
\* goroutine t is executing cache.get between RLock and RUnlock
InGet(t) == run.g[t].pc \in { "Stat", "ReadFile", "RUnlock" }

\* goroutine t is executing cache.set between Lock and Unlock
InSet(t) == run.g[t].pc \in { "MkdirAll", "WriteFile", "Write", "Unlock" }

\* no set runs at the same time as a get or another set, whatever the keys
SetExcludesAll ==
    \A t, u \in Goroutines :
        (t # u /\ InSet(t)) => (~InGet(u) /\ ~InSet(u))

\* no get has read the bytes of a write in progress
NoTornRead == \A t \in Goroutines : ~run.g[t].torn

\* C15: on a cache shared by concurrent callers, a set never executes at the
\* same time as a get or another set, for any keys (gets may overlap); so no
\* get returns the partially written payload of a concurrent set; and every
\* get and set that holds the lock eventually releases it.
C15_LockDiscipline ==
    /\ [](SetExcludesAll /\ NoTornRead)
    /\ \A t \in Goroutines :
          (InGet(t) \/ InSet(t)) ~> ~(InGet(t) \/ InSet(t))

\* C15 witness: two gets of different keys overlap while a set of the key of
\* one of them waits in Lock for them to leave.
C15_Witness ==
    /\ InGet("g1")
    /\ InGet("g2")
    /\ run.g["g1"].key # run.g["g2"].key
    /\ run.g["g3"].pc = "LockWait"
    /\ run.g["g3"].key = run.g["g1"].key
    /\ run.mu.readers = { "g1", "g2" }

\* the version strings of VersionStrings that carry a prerelease indicator
PrereleaseStrings == { <<"1", "-", "r", "c">>, <<"2", "-", "p", "r", "e">> }

\* the indexes of the entries that are neither yanked nor a prerelease
StableIndexes(m) ==
    { i \in UnyankedIndexes(m) : m.Versions[i] \notin PrereleaseStrings }

\* the entry of versions at the highest index that is in S
NewestOf(m, S) ==
    m.Versions[CHOOSE i \in S : \A j \in S : j <= i]

\* C21: for every Metadata, latestStable() is the entry at the highest index
\* that is non-yanked and not a prerelease if there is one; otherwise the
\* entry at the highest non-yanked index (then a prerelease); otherwise the
\* empty string. So it is not empty when only prereleases are non-yanked.
C21_LatestStableOrder ==
    (query.fn = "LatestStable" /\ ~meta.isNil) =>
        /\ StableIndexes(meta) # {} =>
              query.str = NewestOf(meta, StableIndexes(meta))
        /\ (StableIndexes(meta) = {} /\ UnyankedIndexes(meta) # {}) =>
              /\ query.str = NewestOf(meta, UnyankedIndexes(meta))
              /\ query.str \in PrereleaseStrings
              /\ query.str # EmptyStr
        /\ UnyankedIndexes(meta) = {} => query.str = EmptyStr

\* C21 witness: latestStable() on three entries, a yanked stable one between
\* two different prereleases, returned the newest prerelease.
C21_Witness ==
    /\ query.fn = "LatestStable"
    /\ ~meta.isNil
    /\ Len(meta.Versions) = 3
    /\ meta.Versions[1] \in PrereleaseStrings
    /\ meta.Versions[3] \in PrereleaseStrings
    /\ meta.Versions[1] # meta.Versions[3]
    /\ meta.Versions[2] \notin PrereleaseStrings
    /\ KeyOfYanked(meta, meta.Versions[2])
    /\ UnyankedIndexes(meta) = { 1, 3 }
    /\ query.str = meta.Versions[3]

\* C30 (as stated): for every Metadata, latestStable() is the empty string
\* if and only if latest() is, and whenever latest() is not a prerelease,
\* latestStable() equals latest().
C30_Original ==
    (query.fn = "LatestStable" /\ ~meta.isNil) =>
        /\ query.str = EmptyStr <=> Latest(meta) = EmptyStr
        /\ Latest(meta) \notin PrereleaseStrings => query.str = Latest(meta)

\* C30 (amended): if latest() is the empty string so is latestStable(); for
\* every Metadata in which the empty string is not a non-yanked entry of
\* versions, latestStable() is the empty string only if latest() is; and
\* whenever latest() is not a prerelease, latestStable() equals latest().
C30_StableAgreesWithLatest ==
    (query.fn = "LatestStable" /\ ~meta.isNil) =>
        /\ Latest(meta) = EmptyStr => query.str = EmptyStr
        /\ (query.str = EmptyStr /\ ~HasUnyankedEmpty(meta)) =>
              Latest(meta) = EmptyStr
        /\ Latest(meta) \notin PrereleaseStrings => query.str = Latest(meta)

\* C30 witness: latest() is a prerelease and latestStable() an older stable
\* entry: both are non-empty and they differ.
C30_Witness ==
    /\ query.fn = "LatestStable"
    /\ ~meta.isNil
    /\ Latest(meta) \in PrereleaseStrings
    /\ query.str # EmptyStr
    /\ query.str \notin PrereleaseStrings
    /\ query.str # Latest(meta)

(***************************************************************************)
(* Cache read specification: a cache directory, a clock and a call of      *)
(* cache.get are drawn; query holds the call and what it returned.         *)
(***************************************************************************)
GetKey == MetadataPath("testmod")

\* the cache files a get can meet: no file, or a file written at some time
\* up to now, whole or truncated
GetEntries ==
    { NoEntry } \cup
    { Entry(d, t) : d \in { "M1", Truncated }, t \in 0..now }

GetCase(fn, checkTTL, fault, data, ok) ==
    [fn |-> fn, checkTTL |-> checkTTL, fault |-> fault, data |-> data,
     ok |-> ok]

InitGet ==
    /\ client \in { c \in Clients : ~c.cache.isNil /\ JoinPathOK(c.baseURL) }
    /\ store = Tree(Absent, Absent, Absent, Absent, TRUE, {}, {})
    /\ now \in 0..MaxTime
    /\ \E e \in GetEntries : cache = [EmptyCache EXCEPT ![GetKey] = e]
    /\ \E checkTTL \in BOOLEAN, fault \in GetFaults :
          query = GetCase("none", checkTTL, fault, "", FALSE)
    /\ meta = NilMeta
    /\ last = NoCall
    /\ run = NoRun

CallCacheGet ==
    /\ query.fn = "none"
    /\ query' = GetCase("get", query.checkTTL, query.fault,
                        cacheGet(client.cache, GetKey, query.checkTTL,
                                 query.fault).data,
                        cacheGet(client.cache, GetKey, query.checkTTL,
                                 query.fault).ok)
    /\ UNCHANGED <<run, meta, client, store, cache, now, last>>

NextGet == CallCacheGet

SpecGet == InitGet /\ [][NextGet]_vars

(***************************************************************************)
(* Claims about cache.get                                                  *)
(***************************************************************************)
\* the file of the key is older than the time-to-live
GetStale == now - cache[GetKey].mtime > client.cache.ttl

\* C22 (as stated): get(key, checkFreshness) returns found, with the stored
\* bytes, if and only if an entry exists and checkFreshness is false or the
\* entry's age does not exceed the time-to-live; a stale entry is not found
\* under checkFreshness = true and found, with the same bytes, under false.
C22_Original ==
    query.fn = "get" =>
        /\ query.ok <=> (/\ cache[GetKey].present
                         /\ (~query.checkTTL \/ ~GetStale))
        /\ query.ok => query.data = cache[GetKey].data
        /\ (cache[GetKey].present /\ GetStale) =>
              /\ query.checkTTL => ~query.ok
              /\ ~query.checkTTL =>
                    (query.ok /\ query.data = cache[GetKey].data)

\* C22 (amended): get returns found, with the stored bytes, if and only if
\* an entry exists, os.Stat and os.ReadFile of its file succeed, and
\* checkFreshness is false or the entry's age does not exceed the
\* time-to-live; a readable stale entry is not found under checkFreshness =
\* true and found, with the same bytes, under false.
C22_FoundIffReadableAndFresh ==
    query.fn = "get" =>
        /\ query.ok <=> (/\ cache[GetKey].present
                         /\ query.fault = "none"
                         /\ (~query.checkTTL \/ ~GetStale))
        /\ query.ok => query.data = cache[GetKey].data
        /\ ~query.ok => query.data = ""
        /\ (cache[GetKey].present /\ GetStale /\ query.fault = "none") =>
              /\ query.checkTTL => ~query.ok
              /\ ~query.checkTTL =>
                    (query.ok /\ query.data = cache[GetKey].data)

\* C22 witness: a file older than the time-to-live was read without the
\* freshness test and returned whole.
C22_Witness ==
    /\ query.fn = "get"
    /\ ~query.checkTTL
    /\ cache[GetKey].present
    /\ GetStale
    /\ query.ok
    /\ query.data = "M1"

(***************************************************************************)
(* Further claims about the backends                                       *)
(***************************************************************************)
\* the relative path of the resource a call asked for
OwnPath(call) ==
    IF call.op = "Metadata" THEN MetadataPath(call.module)
    ELSE IF call.op = "Source" THEN SourcePath(call.module, call.version)
    ELSE IF call.op = "ModuleFile"
         THEN ModuleFilePath(call.module, call.version)
    ELSE IndexPath

\* C23: across any sequence of client operations the set of keys present in
\* the cache never shrinks: no operation deletes an entry, and an entry is
\* created or overwritten only by a call of Metadata, Source or ModuleFile
\* whose fetch (and parse) succeeded, under that resource's own path.
C23_KeysNeverShrink ==
    [][ \A k \in CacheKeys :
          /\ cache[k].present => cache'[k].present
          /\ cache'[k] # cache[k] =>
                /\ client.kind = "remote"
                /\ last'.op \in ResourceOps
                /\ k = OwnPath(last')
                /\ last'.httpDo = 1
                /\ last'.resp.StatusCode = StatusOK
                /\ last'.ferr = NoErr
                /\ last'.err = NoErr
                /\ last'.sets = 1 ]_vars

\* C23 witness: two keys are present, and the last call overwrote the older
\* entry of its key with what it fetched.
C23_Witness ==
    /\ Cached
    /\ last.op = "Metadata"
    /\ last.before.present
    /\ last.sets = 1
    /\ last.env.sf = "none"
    /\ cache[last.path].data = last.fetched
    /\ cache[last.path].mtime = now
    /\ last.before.age > 0
    /\ \E k \in CacheKeys \ { last.path } : cache[k].present

\* the number of elements a consumer that stops at the stop-th element (0:
\* never) takes from a sequence of n
Taken(n, stop) == IF stop = 0 \/ stop > n THEN n ELSE stop

\* C24: creating the versions sequence performs no call; each consumption
\* performs one metadata call for the module of the sequence and, on
\* success, yields the versions in stored order, oldest first, with no error
\* element, and nothing after the element at which the consumer stops; a
\* second consumption performs a metadata call again.
C24_LazyRestartable ==
    [][ /\ (query'.fn = "Versions" /\ ~query'.consumed) =>
              (last' = last /\ cache' = cache)
        /\ (/\ query'.fn = "Versions"
            /\ query'.consumed
            /\ store' = store
            /\ now' = now) =>
              /\ query.fn = "Versions"
              /\ last'.op = "Metadata"
              /\ last'.module = query.module
              /\ client.cache.isNil => (last'.gets = 0 /\ last'.httpDo = 1)
              /\ ~client.cache.isNil => (last'.gets = 1 /\ last'.httpDo <= 1)
              /\ last'.err = NoErr =>
                    /\ Len(query'.yields) =
                          Taken(Len(last'.meta.Versions), query'.stop)
                    /\ \A i \in 1..Len(query'.yields) :
                          query'.yields[i] =
                              Yield(last'.meta.Versions[i], NoErr) ]_vars

\* C24 witness: the sequence of a module with two versions was consumed by a
\* consumer that stopped at the first; the metadata call of this
\* consumption found the entry an earlier call had cached.
C24_Witness ==
    /\ Ranged
    /\ query.stop = 1
    /\ last.err = NoErr
    /\ Len(last.meta.Versions) = 2
    /\ query.yields = << Yield(last.meta.Versions[1], NoErr) >>
    /\ last.before.present
    /\ last.gets = 1
    /\ last.httpDo = 0

\* the subdirectories of modules/ that hold a metadata.json
ModuleDirs ==
    { d \in store.dirs :
        /\ MetadataPath(d) \in DOMAIN store.files
        /\ store.files[MetadataPath(d)] # Absent }

Listed(call) == { call.names[i] : i \in 1..Len(call.names) }

NoDuplicates(names) ==
    \A i, j \in 1..Len(names) : names[i] = names[j] => i = j

\* C25 as stated: a listing of an existing modules/ directory is exactly the
\* subdirectories that hold a metadata.json, each once. Violated when
\* os.Stat of a metadata.json that is there returns an error: the
\* subdirectory is left out and the call reports no error.
C25_Original ==
    [][ (/\ store' = store /\ now' = now
         /\ last'.op = "ListModules" /\ client.kind = "file"
         /\ TreeRead(last') /\ store.modulesDir) =>
          /\ last'.err = NoErr
          /\ Listed(last') = ModuleDirs
          /\ NoDuplicates(last'.names) ]_vars

\* C25: when modules/ exists and was read, the local-tree ListModules
\* returns no error and only names of immediate subdirectories that hold a
\* metadata.json, none twice: never a subdirectory without one, never an
\* entry that is not a directory. It returns every such subdirectory when
\* os.Stat of the metadata.json files succeeds; a subdirectory whose
\* metadata.json os.Stat could not examine is left out without an error.
C25_ListsModuleDirs ==
    [][ (/\ store' = store /\ now' = now
         /\ last'.op = "ListModules" /\ client.kind = "file"
         /\ TreeRead(last') /\ store.modulesDir) =>
          /\ last'.err = NoErr
          /\ Listed(last') \subseteq ModuleDirs
          /\ NoDuplicates(last'.names)
          /\ ~last'.env.stat => Listed(last') = ModuleDirs
          /\ last'.env.stat => last'.names = << >> ]_vars

\* C25 witness: a tree with a module, a subdirectory without metadata.json
\* and a file under modules/ was listed: the module alone is returned.
C25_Witness ==
    /\ client.kind = "file"
    /\ last.op = "ListModules"
    /\ last.err = NoErr
    /\ ~last.env.stat
    /\ store.dirs = {"testmod", "nometa"}
    /\ store.others = {"index.json"}
    /\ ModuleDirs = {"testmod"}
    /\ last.names = <<"testmod">>

(***************************************************************************)
(* Concurrent calls specification: two goroutines call c.Metadata for the  *)
(* same module on one client, while the registry publishes an update. run  *)
(* holds the lock of the cache, the position and the locals of each call,  *)
(* the last cache.set that returned, and whether two requests were in      *)
(* flight together.                                                        *)
(***************************************************************************)
Callers == { "g1", "g2" }

CallKey == MetadataPath("testmod")

Call(pc, fetched, requested, m, err) ==
    [pc |-> pc, fetched |-> fetched, requested |-> requested, meta |-> m,
     err |-> err]

NoSet == [by |-> "none", data |-> "", fault |-> "none", before |-> NoEntry]

InitCalls ==
    /\ client = New(DefaultBaseURL, "/cache", 0)
    /\ store = Tree("M1", "S1", Absent, Absent, TRUE, {"testmod"}, {})
    /\ now = MaxTime
    /\ \E e \in { NoEntry, Entry("M1", 0), Entry("M1", now) } :
          cache = [EmptyCache EXCEPT ![CallKey] = e]
    /\ run = [mu |-> Unlocked,
              g |-> [t \in Callers |-> Call("idle", "", FALSE, NilMeta, NoErr)],
              lastSet |-> NoSet,
              overlap |-> FALSE]
    /\ last = NoCall
    /\ meta = NilMeta
    /\ query = NoQuery

\* c.Metadata(ctx, "testmod") is called
CallMetadata(t) ==
    /\ run.g[t].pc = "idle"
    /\ run' = [run EXCEPT !.g[t].pc = "get"]
    /\ UNCHANGED <<meta, query, client, store, cache, now, last>>

\* c.cache.get(urlPath, true) takes the read lock
CallGet(t) ==
    /\ run.g[t].pc = "get"
    /\ run.mu.w = "none"
    /\ run' = [run EXCEPT !.mu.readers = @ \cup {t}, !.g[t].pc = "reading"]
    /\ UNCHANGED <<meta, query, client, store, cache, now, last>>

\* get returns, releasing the lock: a hit that parses is the result of the
\* call, everything else goes on to c.fetch
CallGetReturn(t) ==
    /\ run.g[t].pc = "reading"
    /\ \E gf \in GetFaults :
          run' = [run EXCEPT
                    !.mu.readers = @ \ {t},
                    !.g[t] =
                      IF /\ cacheGet(client.cache, CallKey, TRUE, gf).ok
                         /\ UnmarshalMetadata(cache[CallKey].data).ok
                      THEN Call("done", "", FALSE,
                                UnmarshalMetadata(cache[CallKey].data).val,
                                NoErr)
                      ELSE Call("fetch", "", FALSE, NilMeta, NoErr)]
    /\ UNCHANGED <<meta, query, client, store, cache, now, last>>

\* c.fetch: c.http.Do sends the request
CallDo(t) ==
    /\ run.g[t].pc = "fetch"
    /\ run' = [run EXCEPT
                 !.g[t] = Call("flight", "", TRUE, NilMeta, NoErr),
                 !.overlap = @ \/ \E u \in Callers \ {t} :
                                     run.g[u].pc = "flight"]
    /\ UNCHANGED <<meta, query, client, store, cache, now, last>>

\* the response arrives: c.fetch returns, and the body is parsed
CallResponse(t) ==
    /\ run.g[t].pc = "flight"
    /\ \E mode \in { "up", "down" } :
          run' = [run EXCEPT !.g[t] =
                    IF fetch(client, FALSE, CallKey, "testmod", "",
                             mode).err # NoErr
                    THEN Call("done", "", TRUE, NilMeta,
                              fetch(client, FALSE, CallKey, "testmod", "",
                                    mode).err)
                    ELSE IF ~UnmarshalMetadata(
                               fetch(client, FALSE, CallKey, "testmod", "",
                                     mode).data).ok
                    THEN Call("done", "", TRUE, NilMeta,
                              Errorf("bcr: failed to parse metadata",
                                     JSONError))
                    ELSE Call("set",
                              fetch(client, FALSE, CallKey, "testmod", "",
                                    mode).data,
                              TRUE,
                              UnmarshalMetadata(
                                fetch(client, FALSE, CallKey, "testmod", "",
                                      mode).data).val,
                              NoErr)]
    /\ UNCHANGED <<meta, query, client, store, cache, now, last>>

\* c.cache.set(urlPath, data) takes the write lock
CallSet(t) ==
    /\ run.g[t].pc = "set"
    /\ run.mu.w = "none"
    /\ run.mu.readers = {}
    /\ run' = [run EXCEPT !.mu.w = t, !.g[t].pc = "writing"]
    /\ UNCHANGED <<meta, query, client, store, cache, now, last>>

\* mutant: set leaves an entry that is fresh as it is
CallSetReturnKeepFresh(t) ==
    /\ run.g[t].pc = "writing"
    /\ \E sf \in SetFaults :
          /\ cache' = IF cacheGet(client.cache, CallKey, TRUE, "none").ok
                      THEN cache
                      ELSE cacheSet(client.cache, CallKey, run.g[t].fetched,
                                    sf)
          /\ run' = [run EXCEPT
                       !.mu.w = "none",
                       !.g[t].pc = "done",
                       !.lastSet = [by |-> t, data |-> run.g[t].fetched,
                                    fault |-> sf, before |-> cache[CallKey]]]
    /\ UNCHANGED <<meta, query, client, store, now, last>>

\* set returns, releasing the lock, and Metadata returns what it parsed
CallSetReturn(t) ==
    /\ run.g[t].pc = "writing"
    /\ \E sf \in SetFaults :
          /\ cache' = cacheSet(client.cache, CallKey, run.g[t].fetched, sf)
          /\ run' = [run EXCEPT
                       !.mu.w = "none",
                       !.g[t].pc = "done",
                       !.lastSet = [by |-> t, data |-> run.g[t].fetched,
                                    fault |-> sf, before |-> cache[CallKey]]]
    /\ UNCHANGED <<meta, query, client, store, now, last>>

\* the registry publishes a new metadata.json of the module
Publish ==
    /\ store.files[CallKey] = "M1"
    /\ store' = Tree("M2", "S1", Absent, Absent, TRUE, {"testmod"}, {})
    /\ UNCHANGED <<run, meta, query, client, cache, now, last>>

NextCalls ==
    \/ \E t \in Callers :
          \/ CallMetadata(t)
          \/ CallGet(t)
          \/ CallGetReturn(t)
          \/ CallDo(t)
          \/ CallResponse(t)
          \/ CallSet(t)
          \/ CallSetReturn(t)
    \/ Publish

SpecCalls == InitCalls /\ [][NextCalls]_vars

(***************************************************************************)
(* Claims about concurrent calls                                           *)
(***************************************************************************)
HoldsLock(t) == t \in run.mu.readers \/ run.mu.w = t

\* the lock is held only inside get and inside set
NoLockAcrossRequest ==
    \A t \in Callers :
        HoldsLock(t) => run.g[t].pc \in { "reading", "writing" }

\* a call that made a request and succeeded returns what it fetched
ReceivesFetched ==
    \A t \in Callers :
        (run.g[t].pc = "done" /\ run.g[t].requested /\ run.g[t].err = NoErr)
            => /\ UnmarshalMetadata(run.g[t].fetched).ok
               /\ run.g[t].meta = UnmarshalMetadata(run.g[t].fetched).val

AllDone == \A t \in Callers : run.g[t].pc = "done"

FoundStale(call) ==
    call.before.present /\ call.before.age > client.cache.ttl

\* the fetch of the call returned an error, or bytes that do not parse
RefetchFailed(call) ==
    call.ferr # NoErr \/ ~UnmarshalMetadata(call.fetched).ok

FoundUnparseable(call) ==
    /\ call.op \in { "Metadata", "Source" }
    /\ call.before.present
    /\ call.op = "Metadata" =>
          (/\ call.before.age <= client.cache.ttl
           /\ ~UnmarshalMetadata(call.before.data).ok)
    /\ call.op = "Source" => ~UnmarshalSource(call.before.data).ok

\* the call went on to its request, and its outcome is that of the fetch
\* and of the parse of the fetched bytes
FallsThrough(call) ==
    /\ call.httpDo = 1
    /\ call.err # NoErr <=> (call.ferr # NoErr \/ ~FetchedParses(call))
    /\ call.err = NoErr => (ReturnsFetched(call) /\ call.sets = 1)
    /\ call.err # NoErr => call.sets = 0

ResourceCallStep ==
    /\ Cached
    /\ store' = store
    /\ now' = now
    /\ last'.op \in ResourceOps

\* the entry under key k is older than the time-to-live
StaleAt(k) == cache[k].present /\ now - cache[k].mtime > client.cache.ttl

====
